---- MODULE Spec2Model ----
(***************************************************************************)
(* SNMPv3 User Security Model core of gosnmp (src/v3.go).                  *)
(*                                                                         *)
(* Octet strings are sequences of bytes.  A uint32 is the sequence of its  *)
(* four big-endian bytes and a uint64 the sequence of its eight, which is  *)
(* what binary.BigEndian.PutUint32 / PutUint64 write; atomic.AddUint32 and *)
(* atomic.AddUint64 are Inc, an increment with carry that wraps at the     *)
(* width of the sequence.                                                  *)
(***************************************************************************)
EXTENDS Integers, Sequences, FiniteSets, TLC

VARIABLES
    x,          \* the connection, *GoSNMP
    verr,       \* what validateParametersV3 last returned
    pc,         \* per caller: where its call stands
    loc,        \* per caller: the locals of its call
    packetOut,  \* per caller: the packet its call was given
    issued,     \* the builds that returned, in order of their msgID increment
    wire,       \* the inbound message handed to extractV3Packet
    response,   \* the *SnmpPacket extractV3Packet fills
    parsed,     \* what the last extractV3Packet call returned and did
    built,      \* what the last prepV3pPDU / authenticate call returned
    sent,       \* the probes handed to sendOneRequest, in order
    neg,        \* the negotiateInitialSecurityParameters call: where it stands
                \* and what it returned
    sync        \* the last storeSecurityParameters and the last
                \* updatePktSecurityParameters that returned

vars == <<x, verr, pc, loc, packetOut, issued, wire, response, parsed, built,
          sent, neg, sync>>

----------------------------------------------------------------------------
(* Constants of src/v3.go *)

NoAuthNoPriv == 0
AuthNoPriv == 1
AuthPriv == 3
Reportable == 4

UserSecurityModel == 3

NoAuth == 1
MD5 == 2
SHA == 3

NoPriv == 1
DES == 2
AES == 3

Version3 == 3

----------------------------------------------------------------------------
(* Bytes and fixed-width integers *)

Byte == 0..255

RECURSIVE BitAnd(_, _)
\* a & b on non-negative integers
BitAnd(a, b) ==
    IF a = 0 \/ b = 0 THEN 0
    ELSE (a % 2) * (b % 2) + 2 * BitAnd(a \div 2, b \div 2)

RECURSIVE BitOr(_, _)
\* a | b on non-negative integers
BitOr(a, b) ==
    IF a = 0 THEN b
    ELSE IF b = 0 THEN a
    ELSE (IF a % 2 = 1 \/ b % 2 = 1 THEN 1 ELSE 0) + 2 * BitOr(a \div 2, b \div 2)

RECURSIVE BitXor(_, _)
\* a ^ b on non-negative integers
BitXor(a, b) ==
    IF a = 0 THEN b
    ELSE IF b = 0 THEN a
    ELSE ((a + b) % 2) + 2 * BitXor(a \div 2, b \div 2)

RECURSIVE Zeros(_)
\* make([]byte, n)
Zeros(n) == IF n = 0 THEN <<>> ELSE <<0>> \o Zeros(n - 1)

RECURSIVE Inc(_)
\* atomic.AddUint32(&v, 1) / atomic.AddUint64(&v, 1) on big-endian bytes:
\* the new value, wrapping to zero at the width of v
Inc(v) ==
    IF v = <<>> THEN <<>>
    ELSE LET n == Len(v)
             hd == SubSeq(v, 1, n - 1)
         IN IF v[n] < 255 THEN hd \o <<v[n] + 1>>
            ELSE Inc(hd) \o <<0>>

RECURSIVE Less(_, _)
\* a < b for two unsigned integers of the same width
Less(a, b) ==
    IF a = <<>> \/ b = <<>> THEN FALSE
    ELSE IF a[1] # b[1] THEN a[1] < b[1]
    ELSE Less(Tail(a), Tail(b))

Max32 == <<255, 255, 255, 255>>
Max64 == <<255, 255, 255, 255, 255, 255, 255, 255>>

----------------------------------------------------------------------------
(* Go slices.  Indices are Go's, from 0; an index out of range panics, and *)
(* the operators that can panic say so in their result.                    *)

\* s[lo:hi]
Slice(s, lo, hi) == SubSeq(s, lo + 1, hi)
\* s[lo:]
From(s, lo) == SubSeq(s, lo + 1, Len(s))
\* s[i]
At(s, i) == s[i + 1]

RECURSIVE SumOver(_, _, _)
\* the sum of the bytes lo..hi of s
SumOver(s, lo, hi) ==
    IF lo > hi THEN 0
    ELSE IF lo = hi THEN s[lo]
    ELSE LET mid == (lo + hi) \div 2
         IN SumOver(s, lo, mid) + SumOver(s, mid + 1, hi)

RECURSIVE WeightedSumOver(_, _, _)
\* the sum of (2i+1) * s[i] over the bytes lo..hi of s
WeightedSumOver(s, lo, hi) ==
    IF lo > hi THEN 0
    ELSE IF lo = hi THEN (2 * lo + 1) * s[lo]
    ELSE LET mid == (lo + hi) \div 2
         IN WeightedSumOver(s, lo, mid) + WeightedSumOver(s, mid + 1, hi)

\* a ^ b, byte by byte, over the length of a
XorBytes(a, b) == [i \in 1..Len(a) |-> BitXor(a[i], b[i])]

----------------------------------------------------------------------------
(* The BER codec the source calls (marshalLength, marshalUvarInt,          *)
(* parseLength, parseRawField): ASN.1 tags and the short and long length   *)
(* forms of the wire format.                                               *)

Integer == 2
OctetString == 4
Sequence == 48
GetRequest == 160

\* marshalLength: the short form below 128, the long form above
marshalLength(n) ==
    IF n < 128 THEN <<n>>
    ELSE IF n < 256 THEN <<129, n>>
    ELSE <<130, n \div 256, n % 256>>

\* marshalUvarInt of a uint32: its big-endian bytes without leading zero
\* bytes, and a zero byte in front when the top bit would read as a sign
marshalUvarInt(v) ==
    LET i == IF v[1] # 0 THEN 0
             ELSE IF v[2] # 0 THEN 1
             ELSE IF v[3] # 0 THEN 2 ELSE 3
        buf == From(v, i)
    IN IF buf[1] >= 128 THEN <<0>> \o buf ELSE buf

RECURSIVE BigEndian(_)
\* the number a few length octets encode
BigEndian(s) == IF s = <<>> THEN 0 ELSE s[Len(s)] + 256 * BigEndian(SubSeq(s, 1, Len(s) - 1))

\* parseLength(bytes): the length of the whole field, header included, and
\* the length of the header (the cursor of the content)
parseLength(bytes) ==
    IF Len(bytes) <= 2
    THEN [length |-> Len(bytes), cursor |-> Len(bytes), panic |-> FALSE]
    ELSE IF bytes[2] <= 127
    THEN [length |-> bytes[2] + 2, cursor |-> 2, panic |-> FALSE]
    ELSE LET numOctets == bytes[2] % 128
         IN IF 2 + numOctets > Len(bytes) \/ numOctets > 3
            THEN [length |-> 0, cursor |-> 0, panic |-> TRUE]
            ELSE [length |-> BigEndian(Slice(bytes, 2, 2 + numOctets)) + 2 + numOctets,
                  cursor |-> 2 + numOctets, panic |-> FALSE]

\* uint32(i) of the integer parseInt reads from its content octets: the
\* octets sign-extended to a word, of which the low four bytes are kept
Uint32OfInt(content) ==
    LET fill == IF content # <<>> /\ content[1] >= 128 THEN 255 ELSE 0
        wide == <<fill, fill, fill, fill>> \o content
    IN From(wide, Len(wide) - 4)

\* parseRawField(data): the value (an int or a string), the number of bytes
\* the field takes, and the error; reading past the end of data panics
parseRawField(data) ==
    LET pl == parseLength(data)
        bad(e) == [kind |-> "none", val |-> <<>>, count |-> 0, err |-> e]
    IN IF data = <<>> THEN bad("panic")
       ELSE IF data[1] \notin {Integer, OctetString} THEN bad("Unknown field type")
       ELSE IF pl.panic \/ pl.length > Len(data) THEN bad("panic")
       ELSE IF data[1] = Integer
       THEN IF pl.length - pl.cursor > 8 THEN bad("Unable to parse raw INTEGER")
            ELSE [kind |-> "int", val |-> Uint32OfInt(Slice(data, pl.cursor, pl.length)),
                  count |-> pl.length, err |-> "nil"]
       ELSE [kind |-> "string", val |-> Slice(data, pl.cursor, pl.length),
             count |-> pl.length, err |-> "nil"]

----------------------------------------------------------------------------
(* The hash functions and ciphers of the Go library, by a stand-in that    *)
(* keeps what the source relies on: a digest is a function of every bit of *)
(* its input (each byte of it changes when one bit of the input changes),  *)
(* a cipher is undone only by the same key and IV, CBC works on whole      *)
(* blocks and CFB keeps the length.                                        *)

\* md5.New() / sha1.New(), Write(data), Sum(nil): n bytes
Digest(n, data) ==
    LET s0 == SumOver(data, 1, Len(data))
        s1 == WeightedSumOver(data, 1, Len(data))
    IN [j \in 1..n |-> (37 * j + 2 * j * s0 + s1) % 256]

DigestSize(authProtocol) == IF authProtocol = SHA THEN 20 ELSE 16

\* the second hash of the HMAC, h2 over k2 and the inner digest d1: a
\* keyed one-to-one image of d1
OuterDigest(n, k2, d1) ==
    LET pad == Digest(n, k2)
    IN [j \in 1..n |-> (d1[j] + pad[j]) % 256]

\* the block cipher under key k, on one block, and its inverse
EncryptBlock(k, b) == [j \in 1..Len(b) |-> (b[j] + k[((j - 1) % Len(k)) + 1] + j) % 256]
DecryptBlock(k, b) == [j \in 1..Len(b) |-> (b[j] + 512 - k[((j - 1) % Len(k)) + 1] - j) % 256]

DESBlockSize == 8
AESBlockSize == 16

RECURSIVE CBCEncrypt(_, _, _)
\* cipher.NewCBCEncrypter(block, iv).CryptBlocks(dst, src), src whole blocks
CBCEncrypt(k, iv, src) ==
    IF src = <<>> THEN <<>>
    ELSE LET c == EncryptBlock(k, XorBytes(SubSeq(src, 1, DESBlockSize), iv))
         IN c \o CBCEncrypt(k, c, From(src, DESBlockSize))

RECURSIVE CBCDecrypt(_, _, _)
\* cipher.NewCBCDecrypter(block, iv).CryptBlocks(dst, src), src whole blocks
CBCDecrypt(k, iv, src) ==
    IF src = <<>> THEN <<>>
    ELSE LET c == SubSeq(src, 1, DESBlockSize)
         IN XorBytes(DecryptBlock(k, c), iv) \o CBCDecrypt(k, c, From(src, DESBlockSize))

RECURSIVE CFBEncrypt(_, _, _)
\* cipher.NewCFBEncrypter(block, iv).XORKeyStream(dst, src)
CFBEncrypt(k, iv, src) ==
    IF src = <<>> THEN <<>>
    ELSE LET n == IF Len(src) < AESBlockSize THEN Len(src) ELSE AESBlockSize
             c == XorBytes(SubSeq(src, 1, n), EncryptBlock(k, iv))
         IN IF n < AESBlockSize THEN c ELSE c \o CFBEncrypt(k, c, From(src, n))

RECURSIVE CFBDecrypt(_, _, _)
\* cipher.NewCFBDecrypter(block, iv).XORKeyStream(dst, src)
CFBDecrypt(k, iv, src) ==
    IF src = <<>> THEN <<>>
    ELSE LET n == IF Len(src) < AESBlockSize THEN Len(src) ELSE AESBlockSize
             c == SubSeq(src, 1, n)
             pl == XorBytes(c, EncryptBlock(k, iv))
         IN IF n < AESBlockSize THEN pl ELSE pl \o CFBDecrypt(k, c, From(src, n))

----------------------------------------------------------------------------
(* Key localization and the HMAC *)

\* bytes of the password stream that md5HMAC and shaHMAC hash (the source
\* hashes 1048576 of them, password[pi%len(password)] for pi = 0, 1, ...)
StreamLen == 8

PasswordStream(password) ==
    [i \in 1..StreamLen |-> password[((i - 1) % Len(password)) + 1]]

\* md5HMAC / shaHMAC: the localized key, n bytes long
LocalizedKey(n, password, engineID) ==
    LET compressed == Digest(n, PasswordStream(password))
    IN Digest(n, compressed \o engineID \o compressed)

\* genlocalkey(authProtocol, passphrase, engineID); password[pi%len(password)]
\* panics, dividing by zero, when the passphrase is empty
genlocalkey(authProtocol, passphrase, engineID) ==
    IF passphrase = <<>> THEN [panic |-> TRUE, key |-> <<>>]
    ELSE [panic |-> FALSE,
          key |-> LocalizedKey(DigestSize(authProtocol), passphrase, engineID)]

ExtKeyLen == 64

\* authenticate, lines 171-198, and isAuthentic, lines 208-236: the first
\* 12 bytes of the HMAC of msg under secretKey
HMAC96(authProtocol, secretKey, msg) ==
    LET n == DigestSize(authProtocol)
        extkey == secretKey \o Zeros(ExtKeyLen - Len(secretKey))
        k1 == [i \in 1..ExtKeyLen |-> BitXor(extkey[i], 54)]
        k2 == [i \in 1..ExtKeyLen |-> BitXor(extkey[i], 92)]
        d1 == Digest(n, k1 \o msg)
    IN SubSeq(OuterDigest(n, k2, d1), 1, 12)

\* isAuthentic with the comparison stopping at the first equal byte
IsAuthenticAnyByte(msg, authParams, authProtocol, authPassphrase, authEngineID) ==
    LET secretKey == genlocalkey(authProtocol, authPassphrase, authEngineID)
        result == HMAC96(authProtocol, secretKey.key, msg)
    IN IF secretKey.panic \/ Len(authParams) > 12 THEN "panic"
       ELSE IF authParams = <<>> \/ \E k \in 1..Len(authParams) : result[k] = authParams[k]
       THEN "true" ELSE "false"

\* isAuthentic: "true", "false", or "panic"
isAuthentic(msg, authParams, authProtocol, authPassphrase, authEngineID) ==
    LET secretKey == genlocalkey(authProtocol, authPassphrase, authEngineID)
        result == HMAC96(authProtocol, secretKey.key, msg)
    IN IF secretKey.panic \/ Len(authParams) > 12 THEN "panic"
       ELSE IF \E k \in 1..Len(authParams) : result[k] # authParams[k]
       THEN "false" ELSE "true"

----------------------------------------------------------------------------
(* UsmSecurityParameters, SnmpPacket, GoSNMP *)

\* &UsmSecurityParameters{}: every field at its zero value
ZeroUsm ==
    [AuthoritativeEngineID |-> <<>>,
     AuthoritativeEngineBoots |-> Zeros(4),
     AuthoritativeEngineTime |-> Zeros(4),
     UserName |-> <<>>,
     AuthenticationParameters |-> <<>>,
     PrivacyParameters |-> <<>>,
     AuthenticationProtocol |-> 0,
     PrivacyProtocol |-> 0,
     AuthenticationPassphrase |-> <<>>,
     PrivacyPassphrase |-> <<>>,
     localDESSalt |-> Zeros(4),
     localAESSalt |-> Zeros(8)]

\* (sp *UsmSecurityParameters) Copy()
Copy(sp) ==
    [AuthoritativeEngineID |-> sp.AuthoritativeEngineID,
     AuthoritativeEngineBoots |-> sp.AuthoritativeEngineBoots,
     AuthoritativeEngineTime |-> sp.AuthoritativeEngineTime,
     UserName |-> sp.UserName,
     AuthenticationParameters |-> sp.AuthenticationParameters,
     PrivacyParameters |-> sp.PrivacyParameters,
     AuthenticationProtocol |-> sp.AuthenticationProtocol,
     PrivacyProtocol |-> sp.PrivacyProtocol,
     AuthenticationPassphrase |-> sp.AuthenticationPassphrase,
     PrivacyPassphrase |-> sp.PrivacyPassphrase,
     localDESSalt |-> sp.localDESSalt,
     localAESSalt |-> sp.localAESSalt]

\* The flag tests of the source
HasAuth(flags) == BitAnd(flags, AuthNoPriv) > 0
HasPriv(flags) == BitAnd(flags, AuthPriv) > AuthNoPriv

\* validateParametersV3 with the switch's default case lost: a security level
\* that is none of the three named ones is treated as AuthPriv
ValidateLostDefault(c) ==
    LET usm == c.SecurityParameters
        securityLevel == BitAnd(c.MsgFlags, AuthPriv)
        user == IF usm.UserName = <<>> THEN "UserName is required" ELSE "nil"
        auth == IF usm.AuthenticationProtocol <= NoAuth
                THEN "AuthenticationProtocol is required"
                ELSE IF usm.AuthenticationPassphrase = <<>>
                THEN "AuthenticationPassphrase is required"
                ELSE user
        priv == IF usm.PrivacyProtocol <= NoPriv
                THEN "PrivacyProtocol is required"
                ELSE IF usm.PrivacyPassphrase = <<>>
                THEN "PrivacyPassphrase is required"
                ELSE auth
    IN IF c.SecurityModel # UserSecurityModel THEN "only the User Security Model is implemented"
       ELSE IF ~c.usmOk THEN "SecurityParameters is not a populated UsmSecurityParameters"
       ELSE IF securityLevel = AuthNoPriv THEN auth
       ELSE IF securityLevel = NoAuthNoPriv THEN user
       ELSE priv

\* (x *GoSNMP) validateParametersV3(): "nil" or the error returned.
\* usmOk says that SecurityParameters holds a non-nil *UsmSecurityParameters.
validateParametersV3(c) ==
    LET usm == c.SecurityParameters
        securityLevel == BitAnd(c.MsgFlags, AuthPriv)
        \* case NoAuthNoPriv
        user == IF usm.UserName = <<>> THEN "UserName is required" ELSE "nil"
        \* case AuthNoPriv, falling through to NoAuthNoPriv
        auth == IF usm.AuthenticationProtocol <= NoAuth
                THEN "AuthenticationProtocol is required"
                ELSE IF usm.AuthenticationPassphrase = <<>>
                THEN "AuthenticationPassphrase is required"
                ELSE user
        \* case AuthPriv, falling through to AuthNoPriv
        priv == IF usm.PrivacyProtocol <= NoPriv
                THEN "PrivacyProtocol is required"
                ELSE IF usm.PrivacyPassphrase = <<>>
                THEN "PrivacyPassphrase is required"
                ELSE auth
    IN IF c.SecurityModel # UserSecurityModel THEN "only the User Security Model is implemented"
       ELSE IF ~c.usmOk THEN "SecurityParameters is not a populated UsmSecurityParameters"
       ELSE IF securityLevel = AuthPriv THEN priv
       ELSE IF securityLevel = AuthNoPriv THEN auth
       ELSE IF securityLevel = NoAuthNoPriv THEN user
       ELSE "MsgFlags must be populated with an appropriate security level"

----------------------------------------------------------------------------
(* Bounds *)

\* callers that may be inside buildPacket3 at the same time
NumCallers == 2
\* buildPacket3 calls in one run
MaxBuilds == 3

Callers == 1..NumCallers

\* What crypto/rand may hand setSalt, and what the connection's msgID may be
\* when the first request is built: small values, a value whose increment
\* carries, and the values next to the wrap
Seeds64 == {Zeros(8), <<255, 255, 255, 255, 255, 255, 255, 254>>, Max64}
MsgIDSeeds == {<<0, 0, 0, 1>>, <<255, 255, 255, 254>>}

\* engine parameters of the agent the connection talks to
EngineID == <<128, 0, 31>>
Boots == <<0, 0, 0, 7>>
Time == <<0, 0, 1, 0>>
UserName == <<117>>
Passphrase == <<112, 119>>

----------------------------------------------------------------------------
(* The connection and the packets handed to buildPacket3 *)

\* A connection as the user populates it before Connect
Connection(flags, model, authProto, privProto, authPass, privPass, user, msgID) ==
    [Version |-> Version3,
     SecurityModel |-> model,
     MsgFlags |-> flags,
     msgID |-> msgID,
     ContextEngineID |-> <<>>,
     usmOk |-> TRUE,
     SecurityParameters |->
        [ZeroUsm EXCEPT !.UserName = user,
                        !.AuthoritativeEngineID = EngineID,
                        !.AuthoritativeEngineBoots = Boots,
                        !.AuthoritativeEngineTime = Time,
                        !.AuthenticationProtocol = authProto,
                        !.PrivacyProtocol = privProto,
                        !.AuthenticationPassphrase = authPass,
                        !.PrivacyPassphrase = privPass]]

\* The discovery probe of negotiateInitialSecurityParameters
blankPacket ==
    [Version |-> Version3,
     MsgFlags |-> BitOr(Reportable, NoAuthNoPriv),
     SecurityModel |-> UserSecurityModel,
     usmOk |-> TRUE,
     SecurityParameters |-> ZeroUsm,
     PDUType |-> GetRequest,
     ContextEngineID |-> <<>>,
     ContextName |-> <<>>]

\* The packet of an ordinary request: the connection's flags and security
\* model and a Copy of its security parameters
RequestPacket(c) ==
    [Version |-> c.Version,
     MsgFlags |-> c.MsgFlags,
     SecurityModel |-> c.SecurityModel,
     usmOk |-> c.usmOk,
     SecurityParameters |-> Copy(c.SecurityParameters),
     ContextEngineID |-> c.ContextEngineID,
     ContextName |-> <<>>]

\* A packet whose flags, security model and privacy protocol are the
\* caller's own, and which may still hold the salt of an earlier build
AnyPackets(c) ==
    { [RequestPacket(c) EXCEPT !.MsgFlags = f,
                               !.SecurityModel = m,
                               !.SecurityParameters.PrivacyProtocol = pp,
                               !.SecurityParameters.PrivacyParameters = old] :
        f \in 0..3, m \in {UserSecurityModel}, pp \in {NoPriv, DES, AES},
        old \in {<<>>, Boots \o Zeros(4)} }

NoCall == [op |-> "none"]

----------------------------------------------------------------------------
(* buildPacket3 and setSalt *)

\* atomic.AddUint32 / atomic.AddUint64 with a delta of 1: the value stored,
\* which is also the value returned
AtomicSaturate(v) == IF \A i \in 1..Len(v) : v[i] = 255 THEN v ELSE Inc(v)

\* an increment that skips a value
AtomicAddTwo(v) == Inc(Inc(v))

AtomicAdd1(v) == Inc(v)

\* builds that were started
Started == Len(issued) + Cardinality({p \in Callers : pc[p] # "idle"})

\* buildPacket3, line 306, with the increment's result kept in the caller only
BuildMsgIDNotStored(p, pkt) ==
    /\ pc[p] = "idle"
    /\ Started < MaxBuilds
    /\ loc' = [loc EXCEPT ![p] = [msgID |-> AtomicAdd1(x.msgID)]]
    /\ packetOut' = [packetOut EXCEPT ![p] = pkt]
    /\ pc' = [pc EXCEPT ![p] = "salt"]
    /\ UNCHANGED <<x, verr, issued, wire, response, parsed, built, sent, neg, sync>>

\* buildPacket3, lines 306-307: the call is entered with packet pkt and
\* takes its msgID
BuildMsgID(p, pkt) ==
    /\ pc[p] = "idle"
    /\ Started < MaxBuilds
    /\ x' = [x EXCEPT !.msgID = AtomicAdd1(@)]
    /\ loc' = [loc EXCEPT ![p] = [msgID |-> AtomicAdd1(x.msgID)]]
    /\ packetOut' = [packetOut EXCEPT ![p] = pkt]
    /\ pc' = [pc EXCEPT ![p] = "salt"]
    /\ UNCHANGED <<verr, issued, wire, response, parsed, built, sent, neg, sync>>

\* buildPacket3, lines 311-347, on connection c and packet pkt:
\* the connection's security parameters and the packet after the call,
\* and the error returned
BuildSaltResult(c, pkt) ==
    LET base == c.SecurityParameters
        connPriv == HasPriv(c.MsgFlags) /\ c.SecurityModel = UserSecurityModel
        newAES == IF base.PrivacyProtocol = AES
                  THEN AtomicAdd1(base.localAESSalt) ELSE Zeros(8)
        newDES == IF base.PrivacyProtocol = DES
                  THEN AtomicAdd1(base.localDESSalt) ELSE Zeros(4)
        base2 == [base EXCEPT
                    !.localAESSalt = IF base.PrivacyProtocol = AES THEN newAES ELSE @,
                    !.localDESSalt = IF base.PrivacyProtocol = DES THEN newDES ELSE @]
        pktPriv == /\ pkt.Version = Version3
                   /\ pkt.SecurityModel = UserSecurityModel
                   /\ HasPriv(pkt.MsgFlags)
        salt == IF pkt.SecurityParameters.PrivacyProtocol = AES
                THEN newAES
                ELSE pkt.SecurityParameters.AuthoritativeEngineBoots \o newDES
    IN IF ~connPriv
       THEN [usm |-> base, pkt |-> pkt, err |-> "nil", wrote |-> FALSE]
       ELSE IF ~c.usmOk
       THEN [usm |-> base, pkt |-> pkt, wrote |-> FALSE,
             err |-> "GoSNMP.SecurityParameters is not of type UsmSecurityParameters"]
       ELSE IF ~pktPriv
       THEN [usm |-> base2, pkt |-> pkt, err |-> "nil", wrote |-> FALSE]
       ELSE IF ~pkt.usmOk
       THEN [usm |-> base2, pkt |-> pkt, wrote |-> FALSE,
             err |-> "packetOut.SecurityParameters is not of type UsmSecurityParameters"]
       ELSE [usm |-> base2,
             pkt |-> [pkt EXCEPT !.SecurityParameters.PrivacyParameters = salt],
             err |-> "nil", wrote |-> TRUE]

\* buildPacket3, lines 311-347: the salt counter is advanced, the salt is
\* written into the packet and the call returns
BuildSalt(p) ==
    /\ pc[p] = "salt"
    /\ LET r == BuildSaltResult(x, packetOut[p])
       IN /\ x' = [x EXCEPT !.SecurityParameters = r.usm]
          /\ packetOut' = [packetOut EXCEPT ![p] = r.pkt]
          /\ issued' = Append(issued,
                [caller |-> p,
                 msgID |-> loc[p].msgID,
                 err |-> r.err,
                 wrote |-> r.wrote,
                 connFlags |-> x.MsgFlags,
                 connProto |-> x.SecurityParameters.PrivacyProtocol,
                 given |-> packetOut[p],
                 pkt |-> r.pkt,
                 desBefore |-> x.SecurityParameters.localDESSalt,
                 desAfter |-> r.usm.localDESSalt,
                 aesBefore |-> x.SecurityParameters.localAESSalt,
                 aesAfter |-> r.usm.localAESSalt])
    /\ pc' = [pc EXCEPT ![p] = "idle"]
    /\ UNCHANGED <<verr, loc, wire, response, parsed, built, sent, neg, sync>>

\* A request of the connection, or its discovery probe, is built
Send(p) ==
    \E pkt \in {RequestPacket(x), blankPacket} : BuildMsgID(p, pkt)

\* buildPacket3 is called again with the packet the caller already holds
\* (a retry of the request)
Rebuild(p) == BuildMsgID(p, packetOut[p])

\* (x *GoSNMP) setSalt(): crypto/rand succeeded and returned the bytes seed
\* (the first four of them for DES)
SetSalt ==
    /\ \A p \in Callers : pc[p] = "idle"
    /\ \E seed \in Seeds64 :
        x' = [x EXCEPT
                !.MsgFlags = BitOr(@, Reportable),
                !.SecurityParameters.localAESSalt =
                    IF x.SecurityModel = UserSecurityModel
                       /\ x.SecurityParameters.PrivacyProtocol = AES
                    THEN seed ELSE @,
                !.SecurityParameters.localDESSalt =
                    IF x.SecurityModel = UserSecurityModel
                       /\ x.SecurityParameters.PrivacyProtocol = DES
                    THEN SubSeq(seed, 5, 8) ELSE @]
    /\ x' # x
    /\ UNCHANGED <<verr, pc, loc, packetOut, issued, wire, response, parsed, built, sent, neg, sync>>

----------------------------------------------------------------------------
(* The message builder *)

\* the receive buffer size, as a uint32
rxBufSize == <<0, 0, 255, 255>>

\* marshalPDU(pdus, requestid) of the PDU codec: a GetRequest PDU holding the
\* request id and the encoded variable bindings
marshalPDU(pdus, requestid) ==
    LET body == <<Integer, 4>> \o requestid \o pdus
    IN <<GetRequest>> \o marshalLength(Len(body)) \o body

\* (packet *SnmpPacket) marshalSnmpV3Header(msgid)
marshalSnmpV3Header(packet, msgid) ==
    LET maxmsgsize == marshalUvarInt(rxBufSize)
    IN <<Integer, 4>> \o msgid
       \o <<Integer, Len(maxmsgsize)>> \o maxmsgsize
       \o <<OctetString, 1, packet.MsgFlags % 256>>
       \o <<Integer, 1, packet.SecurityModel % 256>>

\* marshalSnmpV3UsmSecurityParameters that writes the authentication
\* parameters of an authenticated packet only when it is also private
MarshalUsmAuthOnlyWithPriv(packet) ==
    LET secParams == packet.SecurityParameters
        boots == marshalUvarInt(secParams.AuthoritativeEngineBoots)
        time == marshalUvarInt(secParams.AuthoritativeEngineTime)
        head == <<OctetString, Len(secParams.AuthoritativeEngineID) % 256>>
                    \o secParams.AuthoritativeEngineID
                \o <<Integer, Len(boots)>> \o boots
                \o <<Integer, Len(time)>> \o time
                \o <<OctetString, Len(secParams.UserName) % 256>> \o secParams.UserName
        auth == IF HasPriv(packet.MsgFlags)
                THEN <<OctetString, 12>> \o Zeros(12)
                ELSE <<OctetString, 0>>
        priv == IF HasPriv(packet.MsgFlags)
                THEN <<OctetString>> \o marshalLength(Len(secParams.PrivacyParameters))
                        \o secParams.PrivacyParameters
                ELSE <<OctetString, 0>>
        buf == head \o auth \o priv
        tmpseq == <<Sequence>> \o marshalLength(Len(buf))
    IN IF ~packet.usmOk
       THEN [bytes |-> <<>>, authParamStart |-> 0,
             err |-> "packet.SecurityParameters is not of type UsmSecurityParameters"]
       ELSE [bytes |-> tmpseq \o buf,
             authParamStart |-> Len(head) + 2 + Len(tmpseq),
             err |-> "nil"]

\* (packet *SnmpPacket) marshalSnmpV3UsmSecurityParameters(): the bytes, the
\* offset of the authentication parameters in them, and the error
marshalSnmpV3UsmSecurityParameters(packet) ==
    LET secParams == packet.SecurityParameters
        boots == marshalUvarInt(secParams.AuthoritativeEngineBoots)
        time == marshalUvarInt(secParams.AuthoritativeEngineTime)
        \* msgAuthoritativeEngineID, Boots, Time, msgUserName
        head == <<OctetString, Len(secParams.AuthoritativeEngineID) % 256>>
                    \o secParams.AuthoritativeEngineID
                \o <<Integer, Len(boots)>> \o boots
                \o <<Integer, Len(time)>> \o time
                \o <<OctetString, Len(secParams.UserName) % 256>> \o secParams.UserName
        \* msgAuthenticationParameters
        auth == IF BitAnd(packet.MsgFlags, AuthNoPriv) > 0
                THEN <<OctetString, 12>> \o Zeros(12)
                ELSE <<OctetString, 0>>
        \* msgPrivacyParameters
        priv == IF HasPriv(packet.MsgFlags)
                THEN <<OctetString>> \o marshalLength(Len(secParams.PrivacyParameters))
                        \o secParams.PrivacyParameters
                ELSE <<OctetString, 0>>
        buf == head \o auth \o priv
        tmpseq == <<Sequence>> \o marshalLength(Len(buf))
    IN IF ~packet.usmOk
       THEN [bytes |-> <<>>, authParamStart |-> 0,
             err |-> "packet.SecurityParameters is not of type UsmSecurityParameters"]
       ELSE [bytes |-> tmpseq \o buf,
             authParamStart |-> Len(head) + 2 + Len(tmpseq),
             err |-> "nil"]

\* prepareSnmpV3ScopedPDU with the context name written in front of the
\* context engine id
PrepareScopedPDUNameFirst(packet, pdus, requestid) ==
    <<OctetString>> \o marshalLength(Len(packet.ContextName)) \o packet.ContextName
    \o <<OctetString>> \o marshalLength(Len(packet.ContextEngineID)) \o packet.ContextEngineID
    \o marshalPDU(pdus, requestid)

\* (packet *SnmpPacket) prepareSnmpV3ScopedPDU(pdus, requestid)
prepareSnmpV3ScopedPDU(packet, pdus, requestid) ==
    <<OctetString>> \o marshalLength(Len(packet.ContextEngineID)) \o packet.ContextEngineID
    \o <<OctetString>> \o marshalLength(Len(packet.ContextName)) \o packet.ContextName
    \o marshalPDU(pdus, requestid)

\* (packet *SnmpPacket) marshalSnmpV3ScopedPDU(pdus, requestid): the bytes
\* and the error; "panic" when a slice is indexed out of range or the
\* privacy passphrase is empty
marshalSnmpV3ScopedPDU(packet, pdus, requestid) ==
    LET inner == prepareSnmpV3ScopedPDU(packet, pdus, requestid)
        scopedPdu == <<Sequence>> \o marshalLength(Len(inner)) \o inner
        secParams == packet.SecurityParameters
        privkey == genlocalkey(secParams.AuthenticationProtocol,
                               secParams.PrivacyPassphrase,
                               secParams.AuthoritativeEngineID)
        \* case AES
        aesIV == secParams.AuthoritativeEngineBoots \o secParams.AuthoritativeEngineTime
                 \o (IF Len(secParams.PrivacyParameters) >= 8
                     THEN SubSeq(secParams.PrivacyParameters, 1, 8)
                     ELSE secParams.PrivacyParameters
                          \o Zeros(8 - Len(secParams.PrivacyParameters)))
        aesText == CFBEncrypt(SubSeq(privkey.key, 1, 16), aesIV, scopedPdu)
        \* default: DES
        preiv == From(privkey.key, 8)
        desIV == XorBytes(SubSeq(preiv, 1, 8), secParams.PrivacyParameters)
        pad == Zeros(DESBlockSize - (Len(scopedPdu) % DESBlockSize))
        desText == CBCEncrypt(SubSeq(privkey.key, 1, 8), desIV, scopedPdu \o pad)
        done(text) == [bytes |-> <<OctetString>> \o marshalLength(Len(text)) \o text,
                       err |-> "nil", encrypted |-> TRUE]
    IN IF ~(HasPriv(packet.MsgFlags) /\ packet.SecurityModel = UserSecurityModel)
       THEN [bytes |-> scopedPdu, err |-> "nil", encrypted |-> FALSE]
       ELSE IF ~packet.usmOk
       THEN [bytes |-> <<>>, encrypted |-> FALSE,
             err |-> "packet.SecurityParameters is not of type UsmSecurityParameters"]
       ELSE IF privkey.panic
       THEN [bytes |-> <<>>, err |-> "panic", encrypted |-> FALSE]
       ELSE IF secParams.PrivacyProtocol = AES
       THEN done(aesText)
       ELSE IF Len(secParams.PrivacyParameters) < 8
       THEN [bytes |-> <<>>, err |-> "panic", encrypted |-> FALSE]
       ELSE done(desText)

\* prepV3pPDU, lines 705-720, with the length of the security parameters
\* taken to be one byte long
WriteSecurityParametersShortLength(buf, usm, scopedPdu) ==
    IF usm.err # "nil"
    THEN [buf |-> <<>>, authParamStart |-> 0, err |-> usm.err, encrypted |-> FALSE]
    ELSE IF scopedPdu.err # "nil"
    THEN [buf |-> <<>>, authParamStart |-> 0, err |-> scopedPdu.err,
          encrypted |-> FALSE]
    ELSE [buf |-> buf \o <<OctetString>> \o marshalLength(Len(usm.bytes))
                  \o usm.bytes \o scopedPdu.bytes,
          authParamStart |-> usm.authParamStart + Len(buf) + 2,
          err |-> "nil", encrypted |-> scopedPdu.encrypted]

\* prepV3pPDU, lines 705-720: buf holds the header, usm is the result of
\* marshalSnmpV3UsmSecurityParameters and scopedPdu that of
\* marshalSnmpV3ScopedPDU
WriteSecurityParameters(buf, usm, scopedPdu) ==
    IF usm.err # "nil"
    THEN [buf |-> <<>>, authParamStart |-> 0, err |-> usm.err, encrypted |-> FALSE]
    ELSE IF scopedPdu.err # "nil"
    THEN [buf |-> <<>>, authParamStart |-> 0, err |-> scopedPdu.err,
          encrypted |-> FALSE]
    ELSE [buf |-> buf \o <<OctetString>> \o marshalLength(Len(usm.bytes))
                  \o usm.bytes \o scopedPdu.bytes,
          authParamStart |-> usm.authParamStart + Len(buf) + 1
                             + Len(marshalLength(Len(usm.bytes))),
          err |-> "nil", encrypted |-> scopedPdu.encrypted]

\* prepV3pPDU, lines 692-697: the header is written behind buf
WriteHeader(buf, header) == buf \o <<Sequence, Len(header) % 256>> \o header

\* (packet *SnmpPacket) prepV3pPDU(msgid, buf, pdus, requestid): the buffer,
\* the offset of the authentication parameters in it, and the error
prepV3pPDU(packet, msgid, buf, pdus, requestid) ==
    WriteSecurityParameters(
        WriteHeader(buf, marshalSnmpV3Header(packet, msgid)),
        IF packet.SecurityModel = UserSecurityModel
        THEN marshalSnmpV3UsmSecurityParameters(packet)
        ELSE [bytes |-> <<>>, authParamStart |-> 0, err |-> "nil"],
        marshalSnmpV3ScopedPDU(packet, pdus, requestid))

\* (packet *SnmpPacket) authenticate(msg, authParamStart): the message
\* returned (isNil when it is nil) and the error.  A panic inside is
\* recovered, and the function then returns nil and no error.
authenticate(packet, msg, authParamStart) ==
    LET secParams == packet.SecurityParameters
        secretKey == genlocalkey(secParams.AuthenticationProtocol,
                                 secParams.AuthenticationPassphrase,
                                 secParams.AuthoritativeEngineID)
        tag == HMAC96(secParams.AuthenticationProtocol, secretKey.key, msg)
        none(e) == [msg |-> <<>>, isNil |-> TRUE, err |-> e]
    IN IF packet.Version # Version3 THEN [msg |-> msg, isNil |-> FALSE, err |-> "nil"]
       ELSE IF BitAnd(packet.MsgFlags, AuthNoPriv) = 0
       THEN [msg |-> msg, isNil |-> FALSE, err |-> "nil"]
       ELSE IF packet.SecurityModel # UserSecurityModel
       THEN none("Error authenticating message: Unknown security model.")
       ELSE IF ~packet.usmOk
       THEN none("Error authenticating message: Unable to extract UsmSecurityParameters")
       ELSE IF secretKey.panic \/ authParamStart + 12 > Len(msg)
       THEN none("nil")
       ELSE [msg |-> Slice(msg, 0, authParamStart) \o tag \o From(msg, authParamStart + 12),
             isNil |-> FALSE, err |-> "nil"]

\* marshalMsg of the message codec, its end: the message msg with the outer
\* SEQUENCE in front, and what authenticate made of it
Authenticated(prep, msg, authParamStart, auth) ==
    [prepared |-> msg, authParamStart |-> authParamStart,
     encrypted |-> prep.encrypted,
     msg |-> auth.msg, isNil |-> auth.isNil, err |-> auth.err]

\* marshalMsg of the message codec, behind prepV3pPDU: the outer SEQUENCE is
\* put in front and authenticate runs over the whole
Framed(packet, prep, outer) ==
    IF prep.err # "nil"
    THEN [prepared |-> <<>>, authParamStart |-> 0, encrypted |-> FALSE,
          msg |-> <<>>, isNil |-> TRUE, err |-> prep.err]
    ELSE Authenticated(prep, outer \o prep.buf, prep.authParamStart + Len(outer),
                       authenticate(packet, outer \o prep.buf,
                                    prep.authParamStart + Len(outer)))

\* the outer SEQUENCE header of a message of n bytes
OuterHeader(n) == <<Sequence>> \o marshalLength(n)

\* marshalMsg of the message codec, with the result prep of prepV3pPDU
Frame(packet, prep) == Framed(packet, prep, OuterHeader(Len(prep.buf)))

\* marshalMsg of the message codec: the version field, the message of
\* prepV3pPDU, the outer SEQUENCE around both, and authenticate over the whole
marshalMsg(packet, msgid, pdus, requestid) ==
    Frame(packet, prepV3pPDU(packet, msgid, <<Integer, 1, packet.Version>>,
                             pdus, requestid))

\* the variable bindings and the request id of the messages built
Pdus == <<Sequence, 0>>
RequestID == <<0, 0, 0, 5>>

----------------------------------------------------------------------------
(* The message parser.  extractV3Packet runs on a record st of its packet  *)
(* slice (the array behind it and the slice's length plen), its cursor,    *)
(* the response it fills, the error it has returned (or "nil", or "panic") *)
(* and the steps of authentication and decryption it took.                 *)

Fail(st, e) == [st EXCEPT !.err = e]

\* the bytes of the packet slice from the cursor on, packet[cursor:]
Rest(st) == Slice(st.packet, st.cursor, st.plen)

\* packet[cursor] is read and must be tag; parseLength steps over the header
ExpectTag(st, tag, what) ==
    LET pl == parseLength(Rest(st))
    IN IF st.err # "nil" THEN st
       ELSE IF st.cursor >= st.plen THEN Fail(st, "panic")
       ELSE IF At(st.packet, st.cursor) # tag THEN Fail(st, what)
       ELSE IF pl.panic THEN Fail(st, "panic")
       ELSE [st EXCEPT !.cursor = @ + pl.cursor]

Kept(resp) == [panic |-> FALSE, response |-> resp]

StoreMsgID(resp, raw) ==
    Kept(IF raw.kind = "int" THEN [resp EXCEPT !.MsgID = raw.val] ELSE resp)
StoreNothing(resp, raw) == Kept(resp)
\* MsgFlags[0] of an empty string panics
StoreMsgFlags(resp, raw) ==
    IF raw.kind = "string" /\ raw.val = <<>> THEN [panic |-> TRUE, response |-> resp]
    ELSE Kept(IF raw.kind = "string" THEN [resp EXCEPT !.MsgFlags = raw.val[1]] ELSE resp)
StoreSecurityModel(resp, raw) ==
    Kept(IF raw.kind = "int" THEN [resp EXCEPT !.SecurityModel = raw.val[4]] ELSE resp)
StoreEngineID(resp, raw) ==
    Kept(IF raw.kind = "string"
         THEN [resp EXCEPT !.SecurityParameters.AuthoritativeEngineID = raw.val] ELSE resp)
StoreBoots(resp, raw) ==
    Kept(IF raw.kind = "int"
         THEN [resp EXCEPT !.SecurityParameters.AuthoritativeEngineBoots = raw.val] ELSE resp)
StoreTime(resp, raw) ==
    Kept(IF raw.kind = "int"
         THEN [resp EXCEPT !.SecurityParameters.AuthoritativeEngineTime = raw.val] ELSE resp)
StoreUserName(resp, raw) ==
    Kept(IF raw.kind = "string"
         THEN [resp EXCEPT !.SecurityParameters.UserName = raw.val] ELSE resp)
StorePrivacyParameters(resp, raw) ==
    Kept(IF raw.kind = "string"
         THEN [resp EXCEPT !.SecurityParameters.PrivacyParameters = raw.val] ELSE resp)
StoreContextEngineID(resp, raw) ==
    Kept(IF raw.kind = "string" THEN [resp EXCEPT !.ContextEngineID = raw.val] ELSE resp)
StoreContextName(resp, raw) ==
    Kept(IF raw.kind = "string" THEN [resp EXCEPT !.ContextName = raw.val] ELSE resp)

\* the assignment the source makes for the field parsed
Store(field, resp, raw) ==
    CASE field = "msgID" -> StoreMsgID(resp, raw)
      [] field = "msgFlags" -> StoreMsgFlags(resp, raw)
      [] field = "msgSecurityModel" -> StoreSecurityModel(resp, raw)
      [] field = "msgAuthoritativeEngineID" -> StoreEngineID(resp, raw)
      [] field = "msgAuthoritativeEngineBoots" -> StoreBoots(resp, raw)
      [] field = "msgAuthoritativeEngineTime" -> StoreTime(resp, raw)
      [] field = "msgUserName" -> StoreUserName(resp, raw)
      [] field = "msgPrivacyParameters" -> StorePrivacyParameters(resp, raw)
      [] field = "contextEngineID" -> StoreContextEngineID(resp, raw)
      [] field = "contextName" -> StoreContextName(resp, raw)
      [] OTHER -> StoreNothing(resp, raw)

\* x.parseRawField(packet[cursor:], ...), cursor += count, and the field is
\* stored in the response's field when the value has the type the source asserts
ParseField(st, what, field) ==
    LET raw == parseRawField(Rest(st))
    IN IF st.err # "nil" THEN st
       ELSE IF raw.err = "panic" THEN Fail(st, "panic")
       ELSE IF raw.err # "nil" THEN Fail(st, what)
       ELSE LET stored == Store(field, st.response, raw)
            IN IF stored.panic THEN Fail(st, "panic")
               ELSE [st EXCEPT !.cursor = @ + raw.count, !.response = stored.response]

\* lines 728-776: the global header and the security parameters' header
ParseHeader(st) ==
    LET s1 == ExpectTag(st, Sequence, "Invalid SNMPV3 Header")
        s2 == ParseField(s1, "Error parsing SNMPV3 message ID", "msgID")
        s3 == ParseField(s2, "Error parsing SNMPV3 maxMsgSize", "maxMsgSize")
        s4 == ParseField(s3, "Error parsing SNMPV3 msgFlags", "msgFlags")
        s5 == ParseField(s4, "Error parsing SNMPV3 msgSecModel", "msgSecurityModel")
    IN ExpectTag(s5, OctetString, "Invalid SNMPV3 Security Parameters")

\* lines 831-857 with the packet authenticated whatever its flags say
AuthenticateAlways(st, OrigAuthEngineID) ==
    LET raw == parseRawField(Rest(st))
        secParameters ==
            IF raw.kind = "string"
            THEN [st.response.SecurityParameters EXCEPT !.AuthenticationParameters = raw.val]
            ELSE st.response.SecurityParameters
        st1 == [st EXCEPT !.response.SecurityParameters = secParameters]
        OrigMsgFlags == AuthNoPriv
        blanked == Slice(st.packet, 0, st.cursor + 2) \o Zeros(12)
                   \o From(st.packet, st.cursor + 14)
        verdict == isAuthentic(blanked, secParameters.AuthenticationParameters,
                          secParameters.AuthenticationProtocol,
                          secParameters.AuthenticationPassphrase,
                          OrigAuthEngineID)
    IN IF st.err # "nil" THEN st
       ELSE IF raw.err = "panic" THEN Fail(st, "panic")
       ELSE IF raw.err # "nil"
       THEN Fail(st, "Error parsing SNMPV3 User Security Model msgAuthenticationParameters")
       ELSE IF BitAnd(OrigMsgFlags, AuthNoPriv) > 0
       THEN IF raw.count # 14
            THEN Fail(st1, "msgAuthenticationParameters is not the correct size")
            ELSE IF verdict = "panic"
            THEN Fail([st1 EXCEPT !.packet = blanked], "panic")
            ELSE IF verdict = "false"
            THEN Fail([st1 EXCEPT !.packet = blanked, !.steps = Append(@, "hmac failed")],
                      "Incoming packet is not authentic, discarding")
            ELSE [st1 EXCEPT !.packet = blanked, !.cursor = @ + raw.count,
                             !.steps = Append(@, "hmac passed")]
       ELSE [st1 EXCEPT !.cursor = @ + raw.count]

\* lines 831-857 with the key localized for the engine id parsed from the
\* message
AuthenticateWithParsedEngineID(st, OrigAuthEngineID) ==
    LET raw == parseRawField(Rest(st))
        secParameters ==
            IF raw.kind = "string"
            THEN [st.response.SecurityParameters EXCEPT !.AuthenticationParameters = raw.val]
            ELSE st.response.SecurityParameters
        st1 == [st EXCEPT !.response.SecurityParameters = secParameters]
        OrigMsgFlags == st.response.MsgFlags
        blanked == Slice(st.packet, 0, st.cursor + 2) \o Zeros(12)
                   \o From(st.packet, st.cursor + 14)
        verdict == isAuthentic(blanked, secParameters.AuthenticationParameters,
                          secParameters.AuthenticationProtocol,
                          secParameters.AuthenticationPassphrase,
                          st.response.SecurityParameters.AuthoritativeEngineID)
    IN IF st.err # "nil" THEN st
       ELSE IF raw.err = "panic" THEN Fail(st, "panic")
       ELSE IF raw.err # "nil"
       THEN Fail(st, "Error parsing SNMPV3 User Security Model msgAuthenticationParameters")
       ELSE IF BitAnd(OrigMsgFlags, AuthNoPriv) > 0
       THEN IF raw.count # 14
            THEN Fail(st1, "msgAuthenticationParameters is not the correct size")
            ELSE IF verdict = "panic"
            THEN Fail([st1 EXCEPT !.packet = blanked], "panic")
            ELSE IF verdict = "false"
            THEN Fail([st1 EXCEPT !.packet = blanked, !.steps = Append(@, "hmac failed")],
                      "Incoming packet is not authentic, discarding")
            ELSE [st1 EXCEPT !.packet = blanked, !.cursor = @ + raw.count,
                             !.steps = Append(@, "hmac passed")]
       ELSE [st1 EXCEPT !.cursor = @ + raw.count]

\* lines 831-857: msgAuthenticationParameters is read and, when the flags
\* in the response say so, the packet is authenticated
Authenticate(st, OrigAuthEngineID) ==
    LET raw == parseRawField(Rest(st))
        secParameters ==
            IF raw.kind = "string"
            THEN [st.response.SecurityParameters EXCEPT !.AuthenticationParameters = raw.val]
            ELSE st.response.SecurityParameters
        st1 == [st EXCEPT !.response.SecurityParameters = secParameters]
        OrigMsgFlags == st.response.MsgFlags
        blanked == Slice(st.packet, 0, st.cursor + 2) \o Zeros(12)
                   \o From(st.packet, st.cursor + 14)
        verdict == isAuthentic(blanked, secParameters.AuthenticationParameters,
                          secParameters.AuthenticationProtocol,
                          secParameters.AuthenticationPassphrase,
                          OrigAuthEngineID)
    IN IF st.err # "nil" THEN st
       ELSE IF raw.err = "panic" THEN Fail(st, "panic")
       ELSE IF raw.err # "nil"
       THEN Fail(st, "Error parsing SNMPV3 User Security Model msgAuthenticationParameters")
       ELSE IF BitAnd(OrigMsgFlags, AuthNoPriv) > 0
       THEN IF raw.count # 14
            THEN Fail(st1, "msgAuthenticationParameters is not the correct size")
            ELSE IF verdict = "panic"
            THEN Fail([st1 EXCEPT !.packet = blanked], "panic")
            ELSE IF verdict = "false"
            THEN Fail([st1 EXCEPT !.packet = blanked, !.steps = Append(@, "hmac failed")],
                      "Incoming packet is not authentic, discarding")
            ELSE [st1 EXCEPT !.packet = blanked, !.cursor = @ + raw.count,
                             !.steps = Append(@, "hmac passed")]
       ELSE [st1 EXCEPT !.cursor = @ + raw.count]

\* the User Security Model parameters with msgPrivacyParameters stored
\* before the packet is authenticated
ParseUsmPrivFirst(st, OrigAuthEngineID) ==
    LET s0 == IF st.err = "nil" /\ ~st.response.usmOk
              THEN Fail(st, "GoSNMP.SecurityParameters is not of type UsmSecurityParameters")
              ELSE st
        s1 == ExpectTag(s0, Sequence, "Error parsing SNMPV3 User Security Model parameters")
        s2 == ParseField(s1, "Error parsing msgAuthoritativeEngineID", "msgAuthoritativeEngineID")
        s3 == ParseField(s2, "Error parsing msgAuthoritativeEngineBoots", "msgAuthoritativeEngineBoots")
        s4 == ParseField(s3, "Error parsing msgAuthoritativeEngineTime", "msgAuthoritativeEngineTime")
        s5 == ParseField(s4, "Error parsing msgUserName", "msgUserName")
        ahead == parseRawField(From(Rest(s5), parseRawField(Rest(s5)).count))
        s6 == IF s5.err = "nil" /\ parseRawField(Rest(s5)).err = "nil"
                 /\ ahead.err = "nil"
              THEN [s5 EXCEPT !.response = StorePrivacyParameters(@, ahead).response]
              ELSE s5
        s7 == Authenticate(s6, OrigAuthEngineID)
    IN ParseField(s7, "Error parsing msgPrivacyParameters", "msgPrivacyParameters")

\* lines 778-870: the User Security Model parameters
ParseUsm(st, OrigAuthEngineID) ==
    LET s0 == IF st.err = "nil" /\ ~st.response.usmOk
              THEN Fail(st, "GoSNMP.SecurityParameters is not of type UsmSecurityParameters")
              ELSE st
        s1 == ExpectTag(s0, Sequence, "Error parsing SNMPV3 User Security Model parameters")
        s2 == ParseField(s1, "Error parsing msgAuthoritativeEngineID", "msgAuthoritativeEngineID")
        s3 == ParseField(s2, "Error parsing msgAuthoritativeEngineBoots", "msgAuthoritativeEngineBoots")
        s4 == ParseField(s3, "Error parsing msgAuthoritativeEngineTime", "msgAuthoritativeEngineTime")
        s5 == ParseField(s4, "Error parsing msgUserName", "msgUserName")
        s6 == Authenticate(s5, OrigAuthEngineID)
    IN ParseField(s6, "Error parsing msgPrivacyParameters", "msgPrivacyParameters")

\* lines 873-925: msgData is an OCTET STRING, the encrypted scoped PDU,
\* which is decrypted in place
Decrypt(st) ==
    LET pl == parseLength(Rest(st))
        cursorTmp == pl.cursor + st.cursor
        secParams == st.response.SecurityParameters
        privkey == genlocalkey(secParams.AuthenticationProtocol,
                               secParams.PrivacyPassphrase,
                               secParams.AuthoritativeEngineID)
        text == Slice(st.packet, cursorTmp, st.plen)
        pp == secParams.PrivacyParameters
        aesIV == secParams.AuthoritativeEngineBoots \o secParams.AuthoritativeEngineTime
                 \o (IF Len(pp) >= 8 THEN SubSeq(pp, 1, 8) ELSE pp \o Zeros(8 - Len(pp)))
        aesPlain == CFBDecrypt(SubSeq(privkey.key, 1, 16), aesIV, text)
        desIV == XorBytes(SubSeq(From(privkey.key, 8), 1, 8), pp)
        desPlain == CBCDecrypt(SubSeq(privkey.key, 1, 8), desIV, text)
        put(plaintext) ==
            [st EXCEPT !.packet = Slice(st.packet, 0, st.cursor) \o plaintext
                                  \o From(st.packet, st.cursor + Len(plaintext)),
                       !.plen = st.cursor + Len(plaintext),
                       !.steps = Append(@, "decrypted")]
    IN IF pl.panic THEN Fail(st, "panic")
       ELSE IF st.response.SecurityModel # UserSecurityModel THEN st
       ELSE IF ~st.response.usmOk
       THEN Fail(st, "response.SecurityParameters is not of type UsmSecurityParameters")
       ELSE IF privkey.panic THEN Fail(st, "panic")
       ELSE IF secParams.PrivacyProtocol = AES THEN put(aesPlain)
       ELSE IF Len(text) % DESBlockSize # 0
       THEN Fail(st, "Error decrypting ScopedPDU: not multiple of des block size.")
       ELSE IF Len(pp) < 8 THEN Fail(st, "panic")
       ELSE put(desPlain)

\* lines 927-951: the plain scoped PDU; the slice is cut to its length,
\* which panics past the capacity of the array
ParseScopedPDU(st) ==
    LET pl == parseLength(Rest(st))
        cut == [st EXCEPT !.plen = st.cursor + pl.length, !.cursor = @ + pl.cursor]
        s1 == ParseField(cut, "Error parsing SNMPV3 contextEngineID", "contextEngineID")
    IN IF st.err # "nil" THEN st
       ELSE IF pl.panic \/ st.cursor + pl.length > Len(st.packet) THEN Fail(st, "panic")
       ELSE IF cut.cursor > cut.plen THEN Fail(cut, "panic")
       ELSE ParseField(s1, "Error parsing SNMPV3 contextName", "contextName")

\* lines 871-955: the switch on the tag of msgData
ParseData(st) ==
    IF st.err # "nil" THEN st
    ELSE IF st.cursor >= st.plen THEN Fail(st, "panic")
    ELSE IF At(st.packet, st.cursor) = OctetString THEN ParseScopedPDU(Decrypt(st))
    ELSE IF At(st.packet, st.cursor) = Sequence THEN ParseScopedPDU(st)
    ELSE Fail(st, "Error parsing SNMPV3 scoped PDU")

\* lines 778-870 run when the response's SecurityModel, as just parsed, is
\* the User Security Model
ParseSecurityParameters(st, OrigAuthEngineID) ==
    IF st.err = "nil" /\ st.response.SecurityModel = UserSecurityModel
    THEN ParseUsm(st, OrigAuthEngineID)
    ELSE st

\* what extractV3Packet returns: the packet and the cursor, or nil, 0 and
\* the error; with them the response as the call leaves it and the steps
Returned(st) ==
    IF st.err = "nil"
    THEN [packet |-> Slice(st.packet, 0, st.plen), isNil |-> FALSE,
          cursor |-> st.cursor, err |-> "nil",
          response |-> st.response, steps |-> st.steps]
    ELSE [packet |-> <<>>, isNil |-> TRUE, cursor |-> 0, err |-> st.err,
          response |-> st.response, steps |-> st.steps]

\* (x *GoSNMP) extractV3Packet(packet, cursor, response, OrigAuthEngineID)
extractV3Packet(packet, cursor, resp, OrigAuthEngineID) ==
    Returned(ParseData(ParseSecurityParameters(
        ParseHeader([packet |-> packet, plen |-> Len(packet), cursor |-> cursor,
                     response |-> resp, err |-> "nil", steps |-> <<>>]),
        OrigAuthEngineID)))

\* The packet the caller of extractV3Packet hands it to fill for a request
\* of connection c: the request's flags and a Copy of its security parameters
ResponseFor(c) ==
    [Version |-> c.Version,
     MsgID |-> Zeros(4),
     MsgFlags |-> c.MsgFlags,
     SecurityModel |-> c.SecurityModel,
     usmOk |-> c.usmOk,
     SecurityParameters |-> Copy(c.SecurityParameters),
     ContextEngineID |-> <<>>,
     ContextName |-> <<>>]

\* where extractV3Packet starts in a message: behind the outer SEQUENCE
\* header and the version field
StartCursor(msg) ==
    LET pl == parseLength(msg)
    IN pl.cursor + parseRawField(From(msg, pl.cursor)).count

NotAuthentic == "Incoming packet is not authentic, discarding"

----------------------------------------------------------------------------
(* Messages on the wire *)

\* The peer, which shares engine id, user and passphrases with the
\* connection, sends a message with the connection's flags
PeerSend ==
    /\ wire = NoCall
    /\ \E msgid \in {<<0, 0, 1, 2>>}, salt \in {Boots \o <<0, 0, 0, 9>>} :
        \E packet \in {[RequestPacket(x) EXCEPT
                          !.MsgFlags = BitAnd(x.MsgFlags, AuthPriv),
                          !.SecurityParameters.PrivacyParameters =
                               IF HasPriv(x.MsgFlags) THEN salt ELSE <<>>]} :
          \E m \in {marshalMsg(packet, msgid, Pdus, RequestID)} :
           /\ m.err = "nil" /\ ~m.isNil
           /\ wire' = [op |-> "msg", bytes |-> m.msg, sent |-> m.msg,
                       cursor |-> StartCursor(m.msg),
                       flags |-> packet.MsgFlags, encrypted |-> m.encrypted,
                       tampered |-> FALSE]
    /\ UNCHANGED <<x, verr, pc, loc, packetOut, issued, response, parsed, built, sent, neg, sync>>

\* One bit of one byte of the message, among the bytes extractV3Packet is
\* given to parse, is changed in flight
Tamper ==
    /\ wire.op = "msg" /\ ~wire.tampered
    /\ parsed = NoCall
    /\ \E i \in (wire.cursor + 1)..Len(wire.bytes), b \in 0..7 :
         wire' = [wire EXCEPT !.bytes[i] = BitXor(@, 2 ^ b), !.tampered = TRUE]
    /\ UNCHANGED <<x, verr, pc, loc, packetOut, issued, response, parsed, built, sent, neg, sync>>

\* extractV3Packet on the message received
Extract ==
    /\ wire.op = "msg"
    /\ parsed = NoCall
    /\ \E r \in {extractV3Packet(wire.bytes, wire.cursor, response,
                                 x.SecurityParameters.AuthoritativeEngineID)} :
          /\ parsed' = [op |-> "done", packet |-> r.packet, isNil |-> r.isNil,
                        cursor |-> r.cursor, err |-> r.err, steps |-> r.steps,
                        before |-> response]
          /\ response' = r.response
    /\ UNCHANGED <<x, verr, pc, loc, packetOut, issued, wire, built, sent, neg, sync>>

\* The packet of the caller's last build is marshalled into a message
Marshal(p) ==
    /\ pc[p] = "idle"
    /\ issued # <<>>
    /\ issued[Len(issued)].caller = p
    /\ issued[Len(issued)].err = "nil"
    /\ IF built = NoCall THEN TRUE ELSE built.build # Len(issued)
    /\ \E m \in {marshalMsg(packetOut[p], issued[Len(issued)].msgID, Pdus, RequestID)} :
         built' = [op |-> "done", build |-> Len(issued),
                   packet |-> packetOut[p],
                   connFlags |-> issued[Len(issued)].connFlags,
                   wrote |-> issued[Len(issued)].wrote,
                   prepared |-> m.prepared, authParamStart |-> m.authParamStart,
                   encrypted |-> m.encrypted,
                   msg |-> m.msg, isNil |-> m.isNil, err |-> m.err]
    /\ UNCHANGED <<x, verr, pc, loc, packetOut, issued, wire, response, parsed, sent, neg, sync>>

----------------------------------------------------------------------------
(* Specifications *)

\* The variables of the operations a specification does not run
NoBuild ==
    /\ pc = [p \in Callers |-> "idle"]
    /\ loc = [p \in Callers |-> [msgID |-> Zeros(4)]]
    /\ packetOut = [p \in Callers |-> blankPacket]
    /\ issued = <<>>

NoParse ==
    /\ wire = NoCall
    /\ response = NoCall
    /\ parsed = NoCall

NoDiscovery ==
    /\ sent = <<>>
    /\ neg = NoCall
    /\ sync = [stores |-> 0, stored |-> NoCall, updated |-> NoCall]

\* Connections as users may populate them
Connections ==
    { Connection(f, m, ap, pp, apass, ppass, u, id) :
        f \in 0..7, m \in {UserSecurityModel, 1},
        ap \in 0..4, pp \in 0..4,
        apass \in {<<>>, Passphrase}, ppass \in {<<>>, Passphrase},
        u \in {<<>>, UserName}, id \in {<<0, 0, 0, 1>>} }

\* validateParametersV3 on a freshly populated connection
InitValidate ==
    /\ x \in Connections \cup {[c EXCEPT !.usmOk = FALSE] : c \in
            {Connection(f, UserSecurityModel, MD5, DES, Passphrase, Passphrase,
                        UserName, <<0, 0, 0, 1>>) : f \in 0..7}}
    /\ verr = "not called"
    /\ NoBuild /\ NoParse
    /\ built = NoCall
    /\ NoDiscovery

Validate ==
    /\ verr = "not called"
    /\ verr' = validateParametersV3(x)
    /\ UNCHANGED <<x, pc, loc, packetOut, issued, wire, response, parsed, built, sent, neg, sync>>

NextValidate == Validate

SpecValidate == InitValidate /\ [][NextValidate]_vars

\* A connection that passed validateParametersV3 with privacy enabled, its
\* salts seeded by setSalt, used by concurrent callers
InitConcurrent ==
    /\ \E pp \in {DES, AES}, id \in MsgIDSeeds, s \in Seeds64 :
         x = [Connection(BitOr(AuthPriv, Reportable), UserSecurityModel, SHA, pp,
                         Passphrase, Passphrase, UserName, id)
                EXCEPT !.SecurityParameters.localAESSalt = IF pp = AES THEN s ELSE @,
                       !.SecurityParameters.localDESSalt =
                            IF pp = DES THEN SubSeq(s, 5, 8) ELSE @]
    /\ validateParametersV3(x) = "nil"
    /\ verr = "nil"
    /\ NoBuild /\ NoParse
    /\ built = NoCall
    /\ NoDiscovery

NextConcurrent == \E p \in Callers : Send(p) \/ BuildSalt(p)

SpecConcurrent == InitConcurrent /\ [][NextConcurrent]_vars

\* Any connection, its salts not yet seeded, used by one caller that holds
\* any packet
InitBuild ==
    /\ \E f \in 0..3, pp \in {NoPriv, DES, AES}, id \in MsgIDSeeds :
         x = Connection(f, UserSecurityModel, SHA, pp,
                        Passphrase, Passphrase, UserName, id)
    /\ verr = "not called"
    /\ pc = [p \in Callers |-> "idle"]
    /\ loc = [p \in Callers |-> [msgID |-> Zeros(4)]]
    /\ \E pkt \in AnyPackets(x) \cup {RequestPacket(x), blankPacket} :
         packetOut = [p \in Callers |-> IF p = 1 THEN pkt ELSE blankPacket]
    /\ issued = <<>>
    /\ NoParse
    /\ built = NoCall
    /\ NoDiscovery

NextBuild ==
    \/ SetSalt
    \/ Rebuild(1)
    \/ BuildSalt(1)

SpecBuild == InitBuild /\ [][NextBuild]_vars

\* A validated connection that awaits the message of its peer
InitParse ==
    /\ \E f \in {NoAuthNoPriv, AuthNoPriv, AuthPriv},
          ap \in {MD5, SHA}, pp \in {DES, AES} :
         x = Connection(BitOr(f, Reportable), UserSecurityModel, ap, pp,
                        Passphrase, Passphrase, UserName, <<0, 0, 0, 1>>)
    /\ validateParametersV3(x) = "nil"
    /\ verr = "nil"
    /\ NoBuild
    /\ wire = NoCall
    /\ response = ResponseFor(x)
    /\ parsed = NoCall
    /\ built = NoCall
    /\ NoDiscovery

NextParse ==
    \/ PeerSend
    \/ Tamper
    \/ Extract

SpecParse == InitParse /\ [][NextParse]_vars

\* Any connection and any packet of one caller, built and marshalled
InitMarshal ==
    /\ \E f \in 0..3, ap \in {NoAuth, MD5, SHA}, pp \in {NoPriv, DES, AES} :
         x = Connection(f, UserSecurityModel, ap, pp,
                        Passphrase, Passphrase, UserName, <<0, 0, 0, 1>>)
    /\ verr = "not called"
    /\ pc = [p \in Callers |-> "idle"]
    /\ loc = [p \in Callers |-> [msgID |-> Zeros(4)]]
    /\ \E pkt \in AnyPackets(x) \cup {RequestPacket(x), blankPacket} :
         packetOut = [p \in Callers |-> IF p = 1 THEN pkt ELSE blankPacket]
    /\ issued = <<>>
    /\ NoParse
    /\ built = NoCall
    /\ NoDiscovery

NextMarshal ==
    \/ Rebuild(1)
    \/ BuildSalt(1)
    \/ Marshal(1)

SpecMarshal == InitMarshal /\ [][NextMarshal]_vars

----------------------------------------------------------------------------
(* Properties of extractV3Packet, checked under SpecParse *)

\* the message received was built with the Auth flag and one of its bits
\* was changed in flight, and extractV3Packet has run on it
TamperedAuthenticated ==
    /\ parsed.op = "done"
    /\ wire.tampered
    /\ HasAuth(wire.flags)

\* C1: no single-bit variant of a valid message built with the Auth flag is
\* accepted: extractV3Packet returns an error for each of them.
C1_NoTamperedMessageAccepted ==
    TamperedAuthenticated => parsed.err # "nil"

\* C2: in extractV3Packet the decryption of msgData is reached only after
\* the HMAC check has passed for the message, and when the check fails
\* nothing is decrypted and no packet bytes are returned (nil, 0, error).
C2_AuthenticatedBeforeDecrypted ==
    parsed.op = "done" =>
        /\ \A i \in 1..Len(parsed.steps) :
             parsed.steps[i] = "decrypted" =>
                \E j \in 1..(i - 1) : parsed.steps[j] = "hmac passed"
        /\ (\E i \in 1..Len(parsed.steps) : parsed.steps[i] = "hmac failed") =>
             /\ parsed.isNil /\ parsed.cursor = 0 /\ parsed.err # "nil"
             /\ \A i \in 1..Len(parsed.steps) : parsed.steps[i] # "decrypted"

\* extractV3Packet returned the not-authentic error
Discarded == parsed.op = "done" /\ parsed.err = NotAuthentic

----------------------------------------------------------------------------
(* Properties of buildPacket3 and setSalt *)

\* C4, under SpecConcurrent: for every interleaving of concurrent
\* buildPacket3 calls on a connection with privacy enabled, no two calls
\* obtain the same msgID and no two packets that were given a salt carry the
\* same PrivacyParameters.
C4_UniqueMsgIDAndSalt ==
    \A i, j \in 1..Len(issued) :
        i # j =>
            /\ issued[i].msgID # issued[j].msgID
            /\ (issued[i].wrote /\ issued[j].wrote) =>
                 issued[i].pkt.SecurityParameters.PrivacyParameters
                    # issued[j].pkt.SecurityParameters.PrivacyParameters

\* two callers were inside buildPacket3 together: the one that took its
\* msgID first took its salt last
C4_InterleavedWitness ==
    \E i, j \in 1..Len(issued) :
        /\ i < j
        /\ issued[i].caller # issued[j].caller
        /\ issued[i].wrote /\ issued[j].wrote
        /\ issued[j].msgID # Zeros(4) /\ issued[i].msgID # Zeros(4)
        /\ Less(issued[j].msgID, issued[i].msgID)

\* the build advanced the connection's DES (AES) salt counter
AdvancedDES(b) == HasPriv(b.connFlags) /\ b.connProto = DES
AdvancedAES(b) == HasPriv(b.connFlags) /\ b.connProto = AES

----------------------------------------------------------------------------
(* Properties of validateParametersV3, checked under SpecValidate *)

\* C7: validateParametersV3 returns an error for every MsgFlags whose Priv
\* bit is set and whose Auth bit is clear, and in every configuration it
\* accepts Priv implies Auth, Auth implies an authentication protocol other
\* than NoAuth and a non-empty authentication passphrase, and Priv implies a
\* privacy protocol other than NoPriv and a non-empty privacy passphrase.
C7_LegalCombinations ==
    LET usm == x.SecurityParameters
    IN verr # "not called" =>
        /\ (HasPriv(x.MsgFlags) /\ ~HasAuth(x.MsgFlags)) => verr # "nil"
        /\ verr = "nil" =>
             /\ HasPriv(x.MsgFlags) => HasAuth(x.MsgFlags)
             /\ HasAuth(x.MsgFlags) =>
                  /\ usm.AuthenticationProtocol # NoAuth
                  /\ usm.AuthenticationPassphrase # <<>>
             /\ HasPriv(x.MsgFlags) =>
                  /\ usm.PrivacyProtocol # NoPriv
                  /\ usm.PrivacyPassphrase # <<>>

\* validateParametersV3 accepted a configuration with authentication and
\* privacy, the Reportable flag set
C7_AcceptedWitness ==
    /\ verr = "nil"
    /\ x.MsgFlags = BitOr(AuthPriv, Reportable)
    /\ x.SecurityParameters.PrivacyProtocol = AES

----------------------------------------------------------------------------
(* Properties of the message builder, checked under SpecMarshal *)

\* data behind its first n fields
RECURSIVE SkipFields(_, _)
SkipFields(data, n) ==
    IF n = 0 THEN data
    ELSE SkipFields(From(data, parseRawField(data).count), n - 1)

\* the fields of the USM parameters of a message: behind the global header
\* and the headers of msgSecurityParameters and of the SEQUENCE inside it
UsmFields(msg) ==
    LET afterHeader == From(msg, StartCursor(msg)
                                    + parseLength(From(msg, StartCursor(msg))).length)
        inside == From(afterHeader, parseLength(afterHeader).cursor)
    IN From(inside, parseLength(inside).cursor)

\* the contents of msgAuthenticationParameters and msgPrivacyParameters
AuthParamsField(msg) == parseRawField(SkipFields(UsmFields(msg), 4))
PrivParamsField(msg) == parseRawField(SkipFields(UsmFields(msg), 5))

\* prepV3pPDU produced a message for a packet of the User Security Model
Prepared ==
    /\ built.op = "done"
    /\ built.prepared # <<>>
    /\ built.packet.SecurityModel = UserSecurityModel

\* the flags and the protocols of a packet disagree
Disagree(packet) ==
    \/ HasPriv(packet.MsgFlags) /\ ~HasAuth(packet.MsgFlags)
    \/ HasAuth(packet.MsgFlags)
         /\ packet.SecurityParameters.AuthenticationProtocol <= NoAuth
    \/ HasPriv(packet.MsgFlags)
         /\ packet.SecurityParameters.PrivacyProtocol <= NoPriv

\* C8: building a packet whose MsgFlags has Priv without Auth, or has Auth or
\* Priv with the corresponding protocol None, fails with an error and
\* produces no message bytes; no message is emitted that is encrypted and
\* carries an empty msgAuthenticationParameters.
C8_BuilderRejectsDisagreement ==
    built.op = "done" =>
        /\ Disagree(built.packet) =>
             (built.err # "nil" /\ built.isNil /\ built.msg = <<>>)
        /\ ~(/\ Prepared /\ ~built.isNil /\ built.encrypted
             /\ AuthParamsField(built.msg).val = <<>>)

\* C9: in every message of the builder msgAuthenticationParameters is 12
\* bytes long when the Auth bit of the packet's MsgFlags is set and 0 bytes
\* long when it is clear, both before authenticate runs (12 zero bytes) and
\* after it, and authenticate changes no other byte of the message.
C9_AuthParamsTwelveIffAuth ==
    Prepared =>
        LET before == AuthParamsField(built.prepared)
            after == AuthParamsField(built.msg)
            want == IF HasAuth(built.packet.MsgFlags) THEN 12 ELSE 0
        IN /\ before.err = "nil" /\ before.kind = "string"
           /\ before.val = Zeros(want)
           /\ ~built.isNil =>
                /\ after.err = "nil" /\ after.kind = "string"
                /\ Len(after.val) = want
                /\ Len(built.msg) = Len(built.prepared)
                /\ \A i \in 1..Len(built.msg) :
                     built.msg[i] # built.prepared[i] =>
                        i \in (built.authParamStart + 1)..(built.authParamStart + want)

\* an authenticated message was built: the field held 12 zero bytes and
\* holds a tag now
C9_TaggedWitness ==
    /\ Prepared /\ ~built.isNil
    /\ HasAuth(built.packet.MsgFlags)
    /\ AuthParamsField(built.prepared).val = Zeros(12)
    /\ Len(AuthParamsField(built.msg).val) = 12
    /\ AuthParamsField(built.msg).val # Zeros(12)

\* C10: in every message of the builder msgPrivacyParameters is 8
\* bytes long when the Priv bit of the packet's MsgFlags is set and empty
\* otherwise, whatever the connection's flags, the packet's flags and the
\* privacy protocol.
C10_PrivParamsEightIffPriv ==
    Prepared =>
        Len(PrivParamsField(built.prepared).val)
            = IF HasPriv(built.packet.MsgFlags) THEN 8 ELSE 0

----------------------------------------------------------------------------
(* A request sent and parsed again by a receiver that shares the engine    *)
(* parameters and the passphrases of the sender                            *)

\* the longest variable-binding list built, in bytes of its content
MaxPduLen == 8

\* an encoded variable-binding list with n bytes of content
VarBinds(n) == <<Sequence, n>> \o [i \in 1..n |-> (16 * i + n) % 256]

PduLists == { VarBinds(n) : n \in 0..MaxPduLen }
RequestIDs == {<<0, 0, 0, 5>>, <<200, 0, 1, 2>>}
LongName == [i \in 1..112 |-> 97 + (i % 26)]
ContextEngineIDs == {<<>>, EngineID}
ContextNames == {<<>>, <<99, 116, 120>>, LongName}

\* unmarshal of the PDU codec on the bytes behind the cursor that
\* extractV3Packet returns: the request id and the variable bindings of a
\* GetRequest PDU
unmarshalPDU(data) ==
    IF data = <<>> \/ data[1] # GetRequest \/ parseLength(data).panic
       \/ parseLength(data).length > Len(data)
    THEN [requestid |-> <<>>, pdus |-> <<>>, err |-> "Unable to parse PDU"]
    ELSE [requestid |-> parseRawField(From(data, parseLength(data).cursor)).val,
          pdus |-> Slice(data,
                         parseLength(data).cursor
                           + parseRawField(From(data, parseLength(data).cursor)).count,
                         parseLength(data).length),
          err |-> parseRawField(From(data, parseLength(data).cursor)).err]

\* the record of a request sent: the packet after buildPacket3 gave it its
\* salt, the message m of marshalMsg, the plain scoped PDU and msgData
SentRequest(packet, pdus, requestid, m, plain, data) ==
    [op |-> "done", packet |-> packet, pdus |-> pdus, requestid |-> requestid,
     msg |-> m.msg, isNil |-> m.isNil, err |-> m.err, encrypted |-> m.encrypted,
     scoped |-> plain.bytes, data |-> data.bytes]

\* One request of the connection goes out: buildPacket3 takes the msgID and
\* the salt, marshalMsg builds and authenticates the message
SendRequest ==
    /\ built = NoCall
    /\ \E pdus \in PduLists, requestid \in RequestIDs,
          ctxe \in ContextEngineIDs, ctxn \in ContextNames :
        \E b \in {BuildSaltResult(x, [RequestPacket(x) EXCEPT
                                        !.ContextEngineID = ctxe,
                                        !.ContextName = ctxn])} :
         \E m \in {marshalMsg(b.pkt, AtomicAdd1(x.msgID), pdus, requestid)} :
          /\ b.err = "nil"
          /\ x' = [x EXCEPT !.msgID = AtomicAdd1(@), !.SecurityParameters = b.usm]
          /\ built' = SentRequest(b.pkt, pdus, requestid, m,
                         marshalSnmpV3ScopedPDU(
                             [b.pkt EXCEPT !.MsgFlags = NoAuthNoPriv], pdus, requestid),
                         marshalSnmpV3ScopedPDU(b.pkt, pdus, requestid))
          /\ wire' = [op |-> "msg", bytes |-> m.msg, sent |-> m.msg,
                      cursor |-> StartCursor(m.msg),
                      flags |-> b.pkt.MsgFlags, encrypted |-> m.encrypted,
                      tampered |-> FALSE]
    /\ UNCHANGED <<verr, pc, loc, packetOut, issued, response, parsed, sent, neg, sync>>

\* The receiver parses the message: extractV3Packet fills the response the
\* caller allocated, and the PDU codec reads the PDU behind the cursor
Receive ==
    /\ wire # NoCall
    /\ parsed = NoCall
    /\ \E r \in {extractV3Packet(wire.bytes, wire.cursor, ResponseFor(x),
                                 x.SecurityParameters.AuthoritativeEngineID)} :
        \E pdu \in {IF r.err = "nil" THEN unmarshalPDU(From(r.packet, r.cursor))
                    ELSE [requestid |-> <<>>, pdus |-> <<>>, err |-> r.err]} :
          /\ parsed' = [op |-> "done", packet |-> r.packet, isNil |-> r.isNil,
                        cursor |-> r.cursor, err |-> r.err, steps |-> r.steps,
                        requestid |-> pdu.requestid, pdus |-> pdu.pdus,
                        pduErr |-> pdu.err]
          /\ response' = r.response
    /\ UNCHANGED <<x, verr, pc, loc, packetOut, issued, wire, built, sent, neg, sync>>

\* The four legal security levels: NoAuthNoPriv, AuthNoPriv, AuthPriv with
\* DES and AuthPriv with AES, on a validated connection
InitRoundTrip ==
    /\ \E f \in {NoAuthNoPriv, AuthNoPriv, AuthPriv},
          ap \in {MD5, SHA}, pp \in {DES, AES}, s \in Seeds64 :
         x = [Connection(BitOr(f, Reportable), UserSecurityModel, ap, pp,
                         Passphrase, Passphrase, UserName, <<0, 0, 0, 1>>)
                EXCEPT !.SecurityParameters.localAESSalt = s,
                       !.SecurityParameters.localDESSalt = SubSeq(s, 5, 8)]
    /\ validateParametersV3(x) = "nil"
    /\ verr = "nil"
    /\ NoBuild
    /\ wire = NoCall
    /\ response = NoCall
    /\ parsed = NoCall
    /\ built = NoCall
    /\ NoDiscovery

NextRoundTrip ==
    \/ SendRequest
    \/ Receive

SpecRoundTrip == InitRoundTrip /\ [][NextRoundTrip]_vars

----------------------------------------------------------------------------
(* Properties of the round trip, checked under SpecRoundTrip *)

\* C11: for NoAuthNoPriv, AuthNoPriv, AuthPriv with DES and AuthPriv with AES
\* and every PDU list, extractV3Packet on the bytes that prepV3pPDU and
\* authenticate built, on a receiver with the same engine id, boots, time and
\* passphrases, returns no error, and the request id, the PDU list, the
\* context engine id and the context name read back are those given to the
\* builder.
C11_RoundTrip ==
    parsed.op = "done" =>
        /\ parsed.err = "nil" /\ ~parsed.isNil /\ parsed.pduErr = "nil"
        /\ parsed.requestid = built.requestid
        /\ parsed.pdus = built.pdus
        /\ response.ContextEngineID = built.packet.ContextEngineID
        /\ response.ContextName = built.packet.ContextName

\* a DES request with a non-empty PDU list, a context engine id and a long
\* context name came back whole, authenticated and decrypted
C11_RoundTripWitness ==
    /\ parsed.op = "done" /\ parsed.err = "nil"
    /\ parsed.steps = <<"hmac passed", "decrypted">>
    /\ built.packet.SecurityParameters.PrivacyProtocol = DES
    /\ Len(parsed.pdus) > 2
    /\ response.ContextEngineID = EngineID
    /\ response.ContextName = LongName

\* the request sent was encrypted with DES
SentDES ==
    /\ built.op = "done" /\ built.err = "nil" /\ built.encrypted
    /\ built.packet.SecurityParameters.PrivacyProtocol # AES

\* C12: for every length L of the plain scoped PDU, multiples of 8 included,
\* the DES ciphertext in msgData is ceil(L/8)*8 bytes long, and after
\* decryption and truncation to the BER length the parser holds exactly the
\* L bytes of the plain scoped PDU.
C12_DESPadding ==
    SentDES =>
        /\ Len(parseRawField(built.data).val)
             = ((Len(built.scoped) + 7) \div 8) * 8
        /\ parsed.op = "done" =>
             /\ parsed.err = "nil"
             /\ From(parsed.packet, Len(parsed.packet) - Len(built.scoped))
                  = built.scoped

----------------------------------------------------------------------------
(* Engine discovery: negotiateInitialSecurityParameters,                   *)
(* storeSecurityParameters and updatePktSecurityParameters                 *)

\* engine id, boots and time of security parameters
Triple(sp) ==
    <<sp.AuthoritativeEngineID, sp.AuthoritativeEngineBoots, sp.AuthoritativeEngineTime>>

\* storeSecurityParameters that leaves the connection's boots alone
StoreWithoutBoots(c, result) ==
    IF c.Version # Version3 \/ result.Version # Version3
    THEN [x |-> c, err |-> "storeParameters called with non Version3 connection or packet"]
    ELSE IF c.SecurityModel # result.SecurityModel
    THEN [x |-> c, err |-> "connection security model does not match security model extracted from packet"]
    ELSE IF result.SecurityModel # UserSecurityModel THEN [x |-> c, err |-> "nil"]
    ELSE IF ~result.usmOk
    THEN [x |-> c, err |-> "result.SecurityParameters is not of type UsmSecurityParameters"]
    ELSE [x |-> [c EXCEPT
                   !.SecurityParameters.AuthoritativeEngineID =
                        IF c.usmOk THEN result.SecurityParameters.AuthoritativeEngineID
                        ELSE @,
                   !.SecurityParameters.AuthoritativeEngineTime =
                        IF c.usmOk THEN result.SecurityParameters.AuthoritativeEngineTime
                        ELSE @,
                   !.ContextEngineID =
                        IF @ = <<>> THEN result.SecurityParameters.AuthoritativeEngineID
                        ELSE @],
          err |-> "nil"]

\* storeSecurityParameters that writes ContextEngineID whatever it holds
StoreContextAlways(c, result) ==
    IF c.Version # Version3 \/ result.Version # Version3
    THEN [x |-> c, err |-> "storeParameters called with non Version3 connection or packet"]
    ELSE IF c.SecurityModel # result.SecurityModel
    THEN [x |-> c, err |-> "connection security model does not match security model extracted from packet"]
    ELSE IF result.SecurityModel # UserSecurityModel THEN [x |-> c, err |-> "nil"]
    ELSE IF ~result.usmOk
    THEN [x |-> c, err |-> "result.SecurityParameters is not of type UsmSecurityParameters"]
    ELSE [x |-> [c EXCEPT
                   !.SecurityParameters.AuthoritativeEngineID =
                        IF c.usmOk THEN result.SecurityParameters.AuthoritativeEngineID
                        ELSE @,
                   !.SecurityParameters.AuthoritativeEngineBoots =
                        IF c.usmOk THEN result.SecurityParameters.AuthoritativeEngineBoots
                        ELSE @,
                   !.SecurityParameters.AuthoritativeEngineTime =
                        IF c.usmOk THEN result.SecurityParameters.AuthoritativeEngineTime
                        ELSE @,
                   !.ContextEngineID = result.SecurityParameters.AuthoritativeEngineID],
          err |-> "nil"]

\* (x *GoSNMP) storeSecurityParameters(result): the connection after the
\* call and the error returned
storeSecurityParameters(c, result) ==
    IF c.Version # Version3 \/ result.Version # Version3
    THEN [x |-> c, err |-> "storeParameters called with non Version3 connection or packet"]
    ELSE IF c.SecurityModel # result.SecurityModel
    THEN [x |-> c, err |-> "connection security model does not match security model extracted from packet"]
    ELSE IF result.SecurityModel # UserSecurityModel THEN [x |-> c, err |-> "nil"]
    ELSE IF ~result.usmOk
    THEN [x |-> c, err |-> "result.SecurityParameters is not of type UsmSecurityParameters"]
    ELSE [x |-> [c EXCEPT
                   !.SecurityParameters.AuthoritativeEngineID =
                        IF c.usmOk THEN result.SecurityParameters.AuthoritativeEngineID
                        ELSE @,
                   !.SecurityParameters.AuthoritativeEngineBoots =
                        IF c.usmOk THEN result.SecurityParameters.AuthoritativeEngineBoots
                        ELSE @,
                   !.SecurityParameters.AuthoritativeEngineTime =
                        IF c.usmOk THEN result.SecurityParameters.AuthoritativeEngineTime
                        ELSE @,
                   !.ContextEngineID =
                        IF @ = <<>> THEN result.SecurityParameters.AuthoritativeEngineID
                        ELSE @],
          err |-> "nil"]

\* updatePktSecurityParameters that leaves the packet's time alone
UpdateWithoutTime(c, pkt) ==
    IF c.Version # Version3 \/ pkt.Version # Version3
    THEN [pkt |-> pkt, err |-> "updatePktSecurityParameters called with non Version3 connection or packet"]
    ELSE IF c.SecurityModel # pkt.SecurityModel
    THEN [pkt |-> pkt, err |-> "connection security model does not match security model extracted from packet"]
    ELSE IF c.SecurityModel = UserSecurityModel /\ ~c.usmOk
    THEN [pkt |-> pkt, err |-> "connection SecurityParameters are not of type UsmSecurityParameters"]
    ELSE IF c.SecurityModel = UserSecurityModel /\ ~pkt.usmOk
    THEN [pkt |-> pkt, err |-> "packetOut.SecurityParameters is not of type UsmSecurityParameters"]
    ELSE [pkt |-> [pkt EXCEPT
                     !.SecurityParameters.AuthoritativeEngineID =
                          IF c.SecurityModel = UserSecurityModel
                          THEN c.SecurityParameters.AuthoritativeEngineID ELSE @,
                     !.SecurityParameters.AuthoritativeEngineBoots =
                          IF c.SecurityModel = UserSecurityModel
                          THEN c.SecurityParameters.AuthoritativeEngineBoots ELSE @,
                     !.ContextEngineID = IF @ = <<>> THEN c.ContextEngineID ELSE @],
          err |-> "nil"]

\* (x *GoSNMP) updatePktSecurityParameters(packetOut): the packet after the
\* call and the error returned
updatePktSecurityParameters(c, pkt) ==
    IF c.Version # Version3 \/ pkt.Version # Version3
    THEN [pkt |-> pkt, err |-> "updatePktSecurityParameters called with non Version3 connection or packet"]
    ELSE IF c.SecurityModel # pkt.SecurityModel
    THEN [pkt |-> pkt, err |-> "connection security model does not match security model extracted from packet"]
    ELSE IF c.SecurityModel = UserSecurityModel /\ ~c.usmOk
    THEN [pkt |-> pkt, err |-> "connection SecurityParameters are not of type UsmSecurityParameters"]
    ELSE IF c.SecurityModel = UserSecurityModel /\ ~pkt.usmOk
    THEN [pkt |-> pkt, err |-> "packetOut.SecurityParameters is not of type UsmSecurityParameters"]
    ELSE [pkt |-> [pkt EXCEPT
                     !.SecurityParameters.AuthoritativeEngineID =
                          IF c.SecurityModel = UserSecurityModel
                          THEN c.SecurityParameters.AuthoritativeEngineID ELSE @,
                     !.SecurityParameters.AuthoritativeEngineBoots =
                          IF c.SecurityModel = UserSecurityModel
                          THEN c.SecurityParameters.AuthoritativeEngineBoots ELSE @,
                     !.SecurityParameters.AuthoritativeEngineTime =
                          IF c.SecurityModel = UserSecurityModel
                          THEN c.SecurityParameters.AuthoritativeEngineTime ELSE @,
                     !.ContextEngineID = IF @ = <<>> THEN c.ContextEngineID ELSE @],
          err |-> "nil"]

\* negotiateInitialSecurityParameters, lines 384-396: the error of an early
\* return, or "nil"
EntryError(c, pkt) ==
    IF c.Version # Version3 \/ pkt.Version # Version3
    THEN "negotiateInitialSecurityParameters called with non Version3 connection or packet"
    ELSE IF c.SecurityModel # pkt.SecurityModel
    THEN "connection security model does not match security model defined in packet"
    ELSE IF pkt.SecurityModel = UserSecurityModel /\ ~pkt.usmOk
    THEN "packetOut.SecurityParameters is not of type UsmSecurityParameters"
    ELSE "nil"

\* negotiateInitialSecurityParameters, line 397: the probe is needed
NeedsProbe(c, pkt) ==
    /\ EntryError(c, pkt) = "nil"
    /\ pkt.SecurityModel = UserSecurityModel
    /\ pkt.SecurityParameters.AuthoritativeEngineID = <<>>

\* what negotiateInitialSecurityParameters returns, with the connection and
\* the packet as the call leaves them
Negotiated(c, pkt, err) ==
    [x |-> c, pkt |-> pkt, isNil |-> err # "nil", err |-> err]

\* negotiateInitialSecurityParameters, lines 414-425, with the connection
\* stored.x that storeSecurityParameters left and its error
UpdateAfterStore(stored, pkt, updated) ==
    IF stored.err # "nil" THEN Negotiated(stored.x, pkt, stored.err)
    ELSE Negotiated(stored.x, updated.pkt, updated.err)

\* lines 410-425 with the packet updated although sendOneRequest failed
AfterProbeUpdatesOnError(c, pkt, reply) ==
    IF reply.err # "nil"
    THEN Negotiated(c, updatePktSecurityParameters(c, pkt).pkt, reply.err)
    ELSE UpdateAfterStore(storeSecurityParameters(c, reply.result), pkt,
            updatePktSecurityParameters(storeSecurityParameters(c, reply.result).x, pkt))

\* negotiateInitialSecurityParameters, lines 410-425: reply is what
\* sendOneRequest returned for the probe
AfterProbe(c, pkt, reply) ==
    IF reply.err # "nil" THEN Negotiated(c, pkt, reply.err)
    ELSE UpdateAfterStore(storeSecurityParameters(c, reply.result), pkt,
            updatePktSecurityParameters(storeSecurityParameters(c, reply.result).x, pkt))

\* storeSecurityParameters calls made for inbound results in one run
MaxStores == 2

\* engine parameters the agent may report, next to those the connection and
\* its packets may already hold
NewEngineID == <<128, 0, 31, 9>>
NewBoots == <<0, 0, 0, 8>>
NewTime == <<0, 0, 2, 0>>

\* The packet sendOneRequest returns: the response extractV3Packet filled
ResultPacket(version, model, engineID, boots, time) ==
    [Version |-> version,
     MsgFlags |-> NoAuthNoPriv,
     SecurityModel |-> model,
     usmOk |-> TRUE,
     SecurityParameters |-> [ZeroUsm EXCEPT !.AuthoritativeEngineID = engineID,
                                            !.AuthoritativeEngineBoots = boots,
                                            !.AuthoritativeEngineTime = time],
     ContextEngineID |-> engineID,
     ContextName |-> <<>>]

Results ==
    { ResultPacket(Version3, UserSecurityModel, e, b, tm) :
        e \in {<<>>, EngineID, NewEngineID}, b \in {Boots, NewBoots},
        tm \in {Time, NewTime} }
    \cup { ResultPacket(1, UserSecurityModel, NewEngineID, NewBoots, NewTime),
           ResultPacket(Version3, 1, NewEngineID, NewBoots, NewTime) }

\* what sendOneRequest may return for the probe: an error of the transport,
\* or a result
Replies ==
    { [err |-> "request timeout", result |-> NoCall] }
    \cup { [err |-> "nil", result |-> r] : r \in Results }

\* negotiateInitialSecurityParameters is entered and returns at once: by an
\* early error, or with the packet as it is because its engine id is known
NegotiateNoProbe ==
    /\ neg = NoCall
    /\ ~NeedsProbe(x, packetOut[1])
    /\ neg' = [op |-> "done", conn |-> x, given |-> packetOut[1], reply |-> NoCall,
               connAfter |-> x, pktAfter |-> packetOut[1],
               packet |-> packetOut[1],
               isNil |-> EntryError(x, packetOut[1]) # "nil",
               err |-> EntryError(x, packetOut[1])]
    /\ UNCHANGED <<x, verr, pc, loc, packetOut, issued, wire, response, parsed,
                   built, sent, sync>>

\* negotiateInitialSecurityParameters, lines 397-408: the blank packet is
\* handed to sendOneRequest, which builds it (buildPacket3 takes a msgID
\* and advances the salt of a private connection) and sends it
NegotiateSend ==
    /\ neg = NoCall
    /\ NeedsProbe(x, packetOut[1])
    /\ sent' = Append(sent, [packet |-> blankPacket, pdus |-> <<>>])
    /\ x' = [x EXCEPT !.msgID = AtomicAdd1(@),
                      !.SecurityParameters = BuildSaltResult(x, blankPacket).usm]
    /\ neg' = [op |-> "probing", conn |-> x, given |-> packetOut[1]]
    /\ UNCHANGED <<verr, pc, loc, packetOut, issued, wire, response, parsed,
                   built, sync>>

\* the record of the last successful store and of the update behind it
Synced(stored, result, updated) ==
    [stores |-> sync.stores,
     stored |-> IF stored.err = "nil"
                THEN [op |-> "done", result |-> result] ELSE sync.stored,
     updated |-> IF stored.err = "nil"
                 THEN [op |-> "done", err |-> updated.err] ELSE sync.updated]

\* negotiateInitialSecurityParameters, lines 408-425: sendOneRequest returns
\* and the call stores the result, updates the packet and returns
NegotiateReturn ==
    /\ neg # NoCall
    /\ neg.op = "probing"
    /\ \E reply \in Replies :
        \E r \in {AfterProbe(x, packetOut[1], reply)} :
          /\ x' = r.x
          /\ packetOut' = [packetOut EXCEPT ![1] = r.pkt]
          /\ neg' = [op |-> "done", conn |-> neg.conn, given |-> neg.given,
                     reply |-> reply,
                     connAfter |-> r.x, pktAfter |-> r.pkt,
                     packet |-> r.pkt, isNil |-> r.isNil, err |-> r.err]
          /\ sync' = IF reply.err # "nil" THEN sync
                     ELSE Synced(storeSecurityParameters(x, reply.result), reply.result,
                                 updatePktSecurityParameters(r.x, packetOut[1]))
    /\ UNCHANGED <<verr, pc, loc, issued, wire, response, parsed, built, sent>>

\* send stores the security parameters of the result of a request
StoreResult ==
    /\ sync.stores < MaxStores
    /\ IF neg = NoCall THEN TRUE ELSE neg.op = "done"
    /\ \E result \in Results :
        \E s \in {storeSecurityParameters(x, result)} :
          /\ x' = s.x
          /\ sync' = [stores |-> sync.stores + 1,
                      stored |-> IF s.err = "nil"
                                 THEN [op |-> "done", result |-> result]
                                 ELSE sync.stored,
                      updated |-> IF s.err = "nil" THEN NoCall ELSE sync.updated]
    /\ UNCHANGED <<verr, pc, loc, packetOut, issued, wire, response, parsed,
                   built, sent, neg>>

\* send brings the packet it retransmits up to the connection's parameters
UpdatePacket ==
    /\ sync.stored # NoCall
    /\ sync.updated = NoCall
    /\ IF neg = NoCall THEN TRUE ELSE neg.op = "done"
    /\ \E u \in {updatePktSecurityParameters(x, packetOut[1])} :
          /\ packetOut' = [packetOut EXCEPT ![1] = u.pkt]
          /\ sync' = [sync EXCEPT !.updated = [op |-> "done", err |-> u.err]]
    /\ UNCHANGED <<x, verr, pc, loc, issued, wire, response, parsed, built, sent, neg>>

\* A validated connection that has not learned its engine yet, or holds the
\* parameters of an earlier exchange, and a packet made from it then or
\* before it learned them
InitDiscovery ==
    /\ \E f \in {NoAuthNoPriv, AuthNoPriv, AuthPriv}, known \in BOOLEAN,
          ctx \in {<<>>, <<128, 0, 31, 1>>} :
         x = [Connection(BitOr(f, Reportable), UserSecurityModel, SHA, DES,
                         Passphrase, Passphrase, UserName, <<0, 0, 0, 1>>)
                EXCEPT !.ContextEngineID = ctx,
                       !.SecurityParameters.AuthoritativeEngineID =
                            IF known THEN EngineID ELSE <<>>,
                       !.SecurityParameters.AuthoritativeEngineBoots =
                            IF known THEN Boots ELSE Zeros(4),
                       !.SecurityParameters.AuthoritativeEngineTime =
                            IF known THEN Time ELSE Zeros(4)]
    /\ validateParametersV3(x) = "nil"
    /\ verr = "nil"
    /\ pc = [p \in Callers |-> "idle"]
    /\ loc = [p \in Callers |-> [msgID |-> Zeros(4)]]
    /\ \E pkt \in {RequestPacket(x),
                   [RequestPacket(x) EXCEPT
                      !.SecurityParameters.AuthoritativeEngineID = <<>>,
                      !.SecurityParameters.AuthoritativeEngineBoots = Zeros(4),
                      !.SecurityParameters.AuthoritativeEngineTime = Zeros(4)]} :
         packetOut = [p \in Callers |-> IF p = 1 THEN pkt ELSE blankPacket]
    /\ issued = <<>>
    /\ NoParse
    /\ built = NoCall
    /\ NoDiscovery

NextDiscovery ==
    \/ NegotiateNoProbe
    \/ NegotiateSend
    \/ NegotiateReturn
    \/ StoreResult
    \/ UpdatePacket

SpecDiscovery == InitDiscovery /\ [][NextDiscovery]_vars

----------------------------------------------------------------------------
(* Properties of discovery, checked under SpecDiscovery *)

\* negotiateInitialSecurityParameters returned for a packet whose engine id
\* was empty
ProbedAndReturned ==
    /\ neg # NoCall
    /\ neg.op = "done"
    /\ neg.given.SecurityParameters.AuthoritativeEngineID = <<>>

\* C13: when negotiateInitialSecurityParameters is called for a packet whose
\* AuthoritativeEngineID is empty, exactly one probe is handed to
\* sendOneRequest (flags Reportable|NoAuthNoPriv = 4, empty USM parameters,
\* no variable bindings, GetRequest), nothing is returned while it is out,
\* and the packet returned without error carries engine id, boots and time
\* of the probe's response, which the connection holds too; when the
\* packet's engine id is not empty no probe is sent and the packet is
\* returned as it is.
C13_ProbeBeforeRequest ==
    neg # NoCall =>
        IF neg.given.SecurityParameters.AuthoritativeEngineID = <<>>
        THEN /\ Len(sent) = 1
             /\ sent[1].packet = blankPacket
             /\ sent[1].packet.MsgFlags = 4
             /\ sent[1].packet.SecurityParameters = ZeroUsm
             /\ sent[1].packet.PDUType = GetRequest
             /\ sent[1].pdus = <<>>
             /\ (neg.op = "done" /\ neg.err = "nil") =>
                  /\ ~neg.isNil
                  /\ neg.reply.err = "nil"
                  /\ sync.stored # NoCall
                  /\ neg.packet = neg.pktAfter
                  /\ Triple(neg.packet.SecurityParameters)
                       = Triple(neg.reply.result.SecurityParameters)
                  /\ Triple(neg.connAfter.SecurityParameters)
                       = Triple(neg.reply.result.SecurityParameters)
        ELSE /\ sent = <<>>
             /\ neg.op = "done" /\ neg.err = "nil" /\ ~neg.isNil
             /\ neg.packet = neg.given

\* a connection that knew another engine probed for a fresh packet and
\* returned it with the parameters of the response
C13_ProbedWitness ==
    /\ ProbedAndReturned
    /\ neg.err = "nil"
    /\ Len(sent) = 1
    /\ neg.conn.SecurityParameters.AuthoritativeEngineID = EngineID
    /\ Triple(neg.packet.SecurityParameters) = <<NewEngineID, NewBoots, NewTime>>
    /\ Triple(neg.connAfter.SecurityParameters) = <<NewEngineID, NewBoots, NewTime>>

\* sendOneRequest failed for the probe
ProbeFailed ==
    /\ ProbedAndReturned
    /\ neg.reply.err # "nil"

\* C14: if sendOneRequest fails for the probe, negotiateInitialSecurityParameters
\* returns the error and no packet, and engine id, boots, time and
\* ContextEngineID of the connection and the security parameters of the
\* outgoing packet are what they were before the call.
C14_ProbeFailureLeavesState ==
    ProbeFailed =>
        /\ neg.err # "nil" /\ neg.isNil
        /\ Triple(neg.connAfter.SecurityParameters) = Triple(neg.conn.SecurityParameters)
        /\ neg.connAfter.ContextEngineID = neg.conn.ContextEngineID
        /\ neg.pktAfter.SecurityParameters = neg.given.SecurityParameters
        /\ neg.pktAfter = neg.given

\* the probe of a connection that has no engine id failed
C14_FailedWitness ==
    /\ ProbeFailed
    /\ neg.conn.SecurityParameters.AuthoritativeEngineID = <<>>
    /\ neg.connAfter.SecurityParameters.AuthoritativeEngineID = <<>>
    /\ neg.err = "request timeout"

\* the probe was answered by a message whose AuthoritativeEngineID is empty
AnsweredWithoutEngineID ==
    /\ ProbedAndReturned
    /\ neg.reply.err = "nil"
    /\ neg.reply.result.Version = Version3
    /\ neg.reply.result.SecurityParameters.AuthoritativeEngineID = <<>>

\* C15: if the response to the probe carries an empty AuthoritativeEngineID,
\* negotiateInitialSecurityParameters returns an error and no packet and the
\* connection's engine id, boots and time stay as they were; the call never
\* returns without error for a probed packet while the connection's engine
\* id is empty.
C15_EmptyEngineIDFails ==
    /\ AnsweredWithoutEngineID =>
         /\ neg.err # "nil" /\ neg.isNil
         /\ Triple(neg.connAfter.SecurityParameters)
              = Triple(neg.conn.SecurityParameters)
    /\ (ProbedAndReturned /\ neg.err = "nil") =>
         neg.connAfter.SecurityParameters.AuthoritativeEngineID # <<>>

\* C16: after storeSecurityParameters returned without error for an inbound
\* message, the connection's engine id, boots and time are those of that
\* message, and a packet passed through updatePktSecurityParameters after it
\* carries exactly those three values, until the next storeSecurityParameters
\* that returns without error.
C16_StoredParametersUsed ==
    sync.stored # NoCall =>
        /\ Triple(x.SecurityParameters)
             = Triple(sync.stored.result.SecurityParameters)
        /\ sync.updated # NoCall =>
             /\ sync.updated.err = "nil"
             /\ Triple(packetOut[1].SecurityParameters)
                  = Triple(sync.stored.result.SecurityParameters)

\* two results were stored one after the other and the packet, which held
\* other parameters before, was brought up to the second
C16_UpdatedWitness ==
    /\ sync.stores = 2
    /\ sync.stored # NoCall
    /\ sync.updated # NoCall
    /\ Triple(packetOut[1].SecurityParameters) = <<NewEngineID, NewBoots, Time>>
    /\ neg # NoCall
    /\ neg.op = "done"
    /\ Triple(neg.pktAfter.SecurityParameters) # Triple(packetOut[1].SecurityParameters)

----------------------------------------------------------------------------
(* storeSecurityParameters and updatePktSecurityParameters running at the  *)
(* same time on one connection.  Neither takes a lock, so their statements *)
(* interleave; an AuthoritativeEngineID is a string, a pointer and a       *)
(* length that are written one after the other, so a reader that races     *)
(* with the assignment may also see one of them old and the other new.     *)

\* the caller inside storeSecurityParameters and the one inside
\* updatePktSecurityParameters
Storer == 1
Updater == 2

\* a string read between the two writes of its assignment: the bytes of one
\* value with the length of the other
TornStrings(old, new) ==
    { [i \in 1..Len(old) |-> IF i <= Len(new) THEN new[i] ELSE 0],
      [i \in 1..Len(new) |-> IF i <= Len(old) THEN old[i] ELSE 0] }

\* storeSecurityParameters, lines 431-446: the checks before the assignments
StoreEnter ==
    /\ pc[Storer] = "idle"
    /\ pc' = [pc EXCEPT ![Storer] =
                IF storeSecurityParameters(x, response).err # "nil" THEN "done"
                ELSE IF response.SecurityModel # UserSecurityModel THEN "done"
                ELSE IF x.usmOk THEN "line 447" ELSE "line 451"]
    /\ loc' = [loc EXCEPT ![Storer] =
                [err |-> storeSecurityParameters(x, response).err,
                 old |-> Triple(x.SecurityParameters)]]
    /\ UNCHANGED <<x, verr, packetOut, issued, wire, response, parsed, built,
                   sent, neg, sync>>

\* line 447, its first write: one word of the string is the new one
AssignEngineIDFirstWord ==
    /\ pc[Storer] = "line 447"
    /\ \E torn \in TornStrings(x.SecurityParameters.AuthoritativeEngineID,
                               response.SecurityParameters.AuthoritativeEngineID) :
         x' = [x EXCEPT !.SecurityParameters.AuthoritativeEngineID = torn]
    /\ pc' = [pc EXCEPT ![Storer] = "line 447, second word"]
    /\ UNCHANGED <<verr, loc, packetOut, issued, wire, response, parsed, built,
                   sent, neg, sync>>

\* line 447: connSecParams.AuthoritativeEngineID = newSecParams.AuthoritativeEngineID
AssignEngineID ==
    /\ pc[Storer] = "line 447, second word"
    /\ x' = [x EXCEPT !.SecurityParameters.AuthoritativeEngineID =
                        response.SecurityParameters.AuthoritativeEngineID]
    /\ pc' = [pc EXCEPT ![Storer] = "line 448"]
    /\ UNCHANGED <<verr, loc, packetOut, issued, wire, response, parsed, built,
                   sent, neg, sync>>

\* line 448: connSecParams.AuthoritativeEngineBoots = newSecParams.AuthoritativeEngineBoots
AssignEngineBoots ==
    /\ pc[Storer] = "line 448"
    /\ x' = [x EXCEPT !.SecurityParameters.AuthoritativeEngineBoots =
                        response.SecurityParameters.AuthoritativeEngineBoots]
    /\ pc' = [pc EXCEPT ![Storer] = "line 449"]
    /\ UNCHANGED <<verr, loc, packetOut, issued, wire, response, parsed, built,
                   sent, neg, sync>>

\* line 449: connSecParams.AuthoritativeEngineTime = newSecParams.AuthoritativeEngineTime
AssignEngineTime ==
    /\ pc[Storer] = "line 449"
    /\ x' = [x EXCEPT !.SecurityParameters.AuthoritativeEngineTime =
                        response.SecurityParameters.AuthoritativeEngineTime]
    /\ pc' = [pc EXCEPT ![Storer] = "line 451"]
    /\ UNCHANGED <<verr, loc, packetOut, issued, wire, response, parsed, built,
                   sent, neg, sync>>

\* lines 451-456: ContextEngineID is filled in when empty, and the call returns
AssignContextEngineIDAndReturn ==
    /\ pc[Storer] = "line 451"
    /\ x' = [x EXCEPT !.ContextEngineID =
                        IF @ = <<>>
                        THEN response.SecurityParameters.AuthoritativeEngineID ELSE @]
    /\ pc' = [pc EXCEPT ![Storer] = "done"]
    /\ UNCHANGED <<verr, loc, packetOut, issued, wire, response, parsed, built,
                   sent, neg, sync>>

\* updatePktSecurityParameters, lines 462-479: the checks before the copies
UpdateEnter ==
    /\ pc[Updater] = "idle"
    /\ pc' = [pc EXCEPT ![Updater] =
                IF updatePktSecurityParameters(x, packetOut[Updater]).err # "nil"
                THEN "done"
                ELSE IF x.SecurityModel = UserSecurityModel THEN "line 480"
                ELSE "line 486"]
    /\ loc' = [loc EXCEPT ![Updater] =
                [err |-> updatePktSecurityParameters(x, packetOut[Updater]).err]]
    /\ UNCHANGED <<x, verr, packetOut, issued, wire, response, parsed, built,
                   sent, neg, sync>>

\* line 480: pktSecParams.AuthoritativeEngineID = connectionSecParams.AuthoritativeEngineID
CopyEngineID ==
    /\ pc[Updater] = "line 480"
    /\ packetOut' = [packetOut EXCEPT ![Updater].SecurityParameters.AuthoritativeEngineID =
                        x.SecurityParameters.AuthoritativeEngineID]
    /\ pc' = [pc EXCEPT ![Updater] = "line 481"]
    /\ UNCHANGED <<x, verr, loc, issued, wire, response, parsed, built,
                   sent, neg, sync>>

\* line 481: pktSecParams.AuthoritativeEngineBoots = connectionSecParams.AuthoritativeEngineBoots
CopyEngineBoots ==
    /\ pc[Updater] = "line 481"
    /\ packetOut' = [packetOut EXCEPT ![Updater].SecurityParameters.AuthoritativeEngineBoots =
                        x.SecurityParameters.AuthoritativeEngineBoots]
    /\ pc' = [pc EXCEPT ![Updater] = "line 482"]
    /\ UNCHANGED <<x, verr, loc, issued, wire, response, parsed, built,
                   sent, neg, sync>>

\* line 482: pktSecParams.AuthoritativeEngineTime = connectionSecParams.AuthoritativeEngineTime
CopyEngineTime ==
    /\ pc[Updater] = "line 482"
    /\ packetOut' = [packetOut EXCEPT ![Updater].SecurityParameters.AuthoritativeEngineTime =
                        x.SecurityParameters.AuthoritativeEngineTime]
    /\ pc' = [pc EXCEPT ![Updater] = "line 486"]
    /\ UNCHANGED <<x, verr, loc, issued, wire, response, parsed, built,
                   sent, neg, sync>>

\* lines 486-490: ContextEngineID is filled in when empty, and the call returns
CopyContextEngineIDAndReturn ==
    /\ pc[Updater] = "line 486"
    /\ packetOut' = [packetOut EXCEPT ![Updater].ContextEngineID =
                        IF @ = <<>> THEN x.ContextEngineID ELSE @]
    /\ pc' = [pc EXCEPT ![Updater] = "done"]
    /\ UNCHANGED <<x, verr, loc, issued, wire, response, parsed, built,
                   sent, neg, sync>>

\* A validated connection that holds the parameters of an earlier exchange;
\* one caller stores a new result while another updates a packet
InitSync ==
    /\ \E f \in {NoAuthNoPriv, AuthNoPriv, AuthPriv}, ctx \in {<<>>, <<128, 0, 31, 1>>} :
         x = [Connection(BitOr(f, Reportable), UserSecurityModel, SHA, DES,
                         Passphrase, Passphrase, UserName, <<0, 0, 0, 1>>)
                EXCEPT !.ContextEngineID = ctx]
    /\ validateParametersV3(x) = "nil"
    /\ verr = "nil"
    /\ pc = [p \in Callers |-> "idle"]
    /\ loc = [p \in Callers |-> [err |-> "nil"]]
    /\ \E pkt \in {RequestPacket(x),
                   [RequestPacket(x) EXCEPT
                      !.SecurityParameters.AuthoritativeEngineID = <<>>,
                      !.SecurityParameters.AuthoritativeEngineBoots = Zeros(4),
                      !.SecurityParameters.AuthoritativeEngineTime = Zeros(4)]} :
         packetOut = [p \in Callers |-> IF p = Updater THEN pkt ELSE blankPacket]
    /\ issued = <<>>
    /\ wire = NoCall
    /\ response \in Results
    /\ parsed = NoCall
    /\ built = NoCall
    /\ NoDiscovery

NextSync ==
    \/ StoreEnter
    \/ AssignEngineIDFirstWord
    \/ AssignEngineID
    \/ AssignEngineBoots
    \/ AssignEngineTime
    \/ AssignContextEngineIDAndReturn
    \/ UpdateEnter
    \/ CopyEngineID
    \/ CopyEngineBoots
    \/ CopyEngineTime
    \/ CopyContextEngineIDAndReturn

SpecSync == InitSync /\ [][NextSync]_vars

----------------------------------------------------------------------------
(* Properties of the concurrent update, checked under SpecSync *)

\* C17: for every interleaving of storeSecurityParameters with
\* updatePktSecurityParameters, the packet that updatePktSecurityParameters
\* returns carries either the connection's engine id, boots and time of
\* before the store or those of the stored result, never a mixture.
C17_AllOldOrAllNew ==
    (pc[Updater] = "done" /\ loc[Updater].err = "nil") =>
        \/ Triple(packetOut[Updater].SecurityParameters) = <<EngineID, Boots, Time>>
        \/ Triple(packetOut[Updater].SecurityParameters)
             = Triple(response.SecurityParameters)

----------------------------------------------------------------------------
(* Inbound messages of any peer: the fields of the wire format put         *)
(* together freely, by a sender that may know the passphrases              *)

\* msgAuthoritativeEngineID, Boots, Time and msgUserName of the peer
UsmHead(secParams) ==
    <<OctetString, Len(secParams.AuthoritativeEngineID)>> \o secParams.AuthoritativeEngineID
    \o <<Integer, Len(marshalUvarInt(secParams.AuthoritativeEngineBoots))>>
    \o marshalUvarInt(secParams.AuthoritativeEngineBoots)
    \o <<Integer, Len(marshalUvarInt(secParams.AuthoritativeEngineTime))>>
    \o marshalUvarInt(secParams.AuthoritativeEngineTime)
    \o <<OctetString, Len(secParams.UserName)>> \o secParams.UserName

\* an OCTET STRING field with its length in the short form, or in the long
\* form with one length octet
OctetField(form, content) ==
    IF form = "long" THEN <<OctetString, 129, Len(content)>> \o content
    ELSE <<OctetString, Len(content)>> \o content

\* the USM parameters with their SEQUENCE header
UsmSequence(body) == <<Sequence>> \o marshalLength(Len(body)) \o body

\* the message behind the outer SEQUENCE header
PeerBody(header, usm, data) ==
    <<Integer, 1, Version3>> \o <<Sequence, Len(header)>> \o header
    \o <<OctetString>> \o marshalLength(Len(usm)) \o usm \o data

\* a message of the wire format with the given msgAuthenticationParameters,
\* msgPrivacyParameters and msgData
PeerMessage(packet, msgid, authField, privField, data) ==
    OuterHeader(Len(PeerBody(marshalSnmpV3Header(packet, msgid),
                             UsmSequence(UsmHead(packet.SecurityParameters)
                                         \o authField \o privField),
                             data)))
    \o PeerBody(marshalSnmpV3Header(packet, msgid),
                UsmSequence(UsmHead(packet.SecurityParameters) \o authField \o privField),
                data)

\* the first n bytes of the tag, zeros behind them
TagBytes(tag, n) == SubSeq(tag \o Zeros(n), 1, n)

\* msg with the n content bytes of the authentication field at fieldStart,
\* behind a header of hdr bytes, taken from the HMAC of the message as the
\* receiver blanks it (the 12 bytes behind the first two of the field)
PeerSigned(msg, fieldStart, hdr, n, secParams) ==
    Slice(msg, 0, fieldStart + hdr)
    \o TagBytes(HMAC96(secParams.AuthenticationProtocol,
                       genlocalkey(secParams.AuthenticationProtocol,
                                   secParams.AuthenticationPassphrase,
                                   secParams.AuthoritativeEngineID).key,
                       Slice(msg, 0, fieldStart + 2) \o Zeros(12)
                           \o From(msg, fieldStart + 14)),
                n)
    \o From(msg, fieldStart + hdr + n)

\* the encodings of msgAuthenticationParameters a peer may send: contents
\* of 0, 11, 12 and 13 bytes in the short form and of 11 in the long form
AuthForms ==
    { [form |-> "short", n |-> n] : n \in {0, 11, 12, 13} }
    \cup { [form |-> "long", n |-> 11] }

\* the lengths of msgPrivacyParameters a peer may send
PrivLens == {0, 4, 8, 9}

\* a salt of n bytes
PrivSalt(n) == SubSeq(Boots \o <<0, 0, 0, 9, 7>>, 1, n)

\* The peer sends a message with flags f and security model m, its
\* authentication field in the form af (computed with the passphrase when
\* signed), a salt of pn bytes, and msgData encrypted or plain
PeerCraft ==
    /\ verr = "nil"
    /\ wire = NoCall
    /\ \E f \in {NoAuthNoPriv, AuthNoPriv, AuthPriv}, m \in {UserSecurityModel, 1},
          af \in AuthForms, signed \in BOOLEAN, pn \in PrivLens, enc \in BOOLEAN :
        \E packet \in {[RequestPacket(x) EXCEPT
                          !.MsgFlags = f, !.SecurityModel = m,
                          !.SecurityParameters.PrivacyParameters =
                               SubSeq(PrivSalt(pn) \o Zeros(8), 1, 8)]} :
         \E data \in {marshalSnmpV3ScopedPDU(
                         [packet EXCEPT !.MsgFlags = IF enc THEN AuthPriv ELSE NoAuthNoPriv,
                                        !.SecurityModel = UserSecurityModel],
                         Pdus, RequestID)} :
          \E msg \in {PeerMessage(packet, <<0, 0, 1, 2>>,
                                  OctetField(af.form, Zeros(af.n)),
                                  OctetField("short", PrivSalt(pn)), data.bytes)} :
           /\ data.err = "nil"
           /\ wire' = [op |-> "msg",
                       bytes |-> IF signed
                                 THEN PeerSigned(msg,
                                         Len(msg) - Len(data.bytes) - (2 + pn)
                                            - Len(OctetField(af.form, Zeros(af.n))),
                                         Len(OctetField(af.form, <<>>)), af.n,
                                         packet.SecurityParameters)
                                 ELSE msg,
                       sent |-> msg,
                       cursor |-> StartCursor(msg),
                       flags |-> f, model |-> m,
                       authLen |-> af.n, authForm |-> af.form, signed |-> signed,
                       privLen |-> pn,
                       encrypted |-> enc, tampered |-> FALSE]
    /\ UNCHANGED <<x, verr, pc, loc, packetOut, issued, response, parsed, built,
                   sent, neg, sync>>

\* A connection as its user populated it, before validateParametersV3
InitInbound ==
    /\ \E f \in {NoAuthNoPriv, AuthPriv}, m \in {UserSecurityModel, 1},
          ap \in {MD5, SHA}, pp \in {DES, AES} :
         x = Connection(BitOr(f, Reportable), m, ap, pp,
                        Passphrase, Passphrase, UserName, <<0, 0, 0, 1>>)
    /\ verr = "not called"
    /\ NoBuild
    /\ wire = NoCall
    /\ response = ResponseFor(x)
    /\ parsed = NoCall
    /\ built = NoCall
    /\ NoDiscovery

NextInbound ==
    \/ Validate
    \/ PeerCraft
    \/ Extract

SpecInbound == InitInbound /\ [][NextInbound]_vars

----------------------------------------------------------------------------
(* Properties of extractV3Packet on any inbound message, checked under     *)
(* SpecInbound                                                             *)

WrongSize == "msgAuthenticationParameters is not the correct size"

\* extractV3Packet has run on a message of the User Security Model
ExtractedUsm ==
    /\ parsed.op = "done"
    /\ wire.model = UserSecurityModel

\* C18: a message of the User Security Model whose msgFlags has the Auth bit
\* set and whose msgAuthenticationParameters is not exactly 12 bytes long is
\* rejected by extractV3Packet with the error that the field is not the
\* correct size, before any HMAC is computed and before any decryption.
C18_MalformedAuthParamsRejected ==
    (ExtractedUsm /\ HasAuth(wire.flags) /\ wire.authLen # 12) =>
        /\ parsed.err = WrongSize
        /\ parsed.isNil
        /\ parsed.steps = <<>>

\* C19: validateParametersV3 returns an error for a connection whose
\* SecurityModel is not UserSecurityModel, and extractV3Packet returns an
\* error for every inbound message whose msgSecurityModel is not 3, without
\* authenticating, decrypting or returning any of it.
C19_OtherSecurityModelRejected ==
    /\ (verr # "not called" /\ x.SecurityModel # UserSecurityModel) => verr # "nil"
    /\ (parsed.op = "done" /\ wire.model # UserSecurityModel) =>
         /\ parsed.err # "nil"
         /\ parsed.isNil
         /\ parsed.steps = <<>>

\* C20: a message of the User Security Model with encrypted msgData whose
\* msgPrivacyParameters is not exactly 8 bytes long is rejected by
\* extractV3Packet with an error value, for DES and for AES: the call does
\* not panic and decrypts nothing.
C20_MalformedPrivParamsRejected ==
    (ExtractedUsm /\ wire.encrypted /\ wire.privLen # 8) =>
        /\ parsed.err # "nil"
        /\ parsed.err # "panic"
        /\ parsed.isNil
        /\ \A i \in 1..Len(parsed.steps) : parsed.steps[i] # "decrypted"

----------------------------------------------------------------------------
(* Key localization with any passphrase, the empty one included: the       *)
(* builder on any packet of the connection, and the parser on the message  *)
(* of a peer that knows no passphrase                                      *)

\* A peer that knows the engine id and the user name only sends a message
\* with flags f, twelve zero bytes of msgAuthenticationParameters, a salt of
\* eight bytes and msgData plain or as an OCTET STRING of sixteen bytes
PeerWithoutKeys ==
    /\ verr = "nil"
    /\ wire = NoCall
    /\ issued = <<>>
    /\ \E f \in {NoAuthNoPriv, AuthNoPriv, AuthPriv}, enc \in BOOLEAN :
        \E packet \in {[RequestPacket(x) EXCEPT !.MsgFlags = f]} :
         \E data \in {IF enc THEN OctetField("short", Zeros(16))
                      ELSE marshalSnmpV3ScopedPDU(
                               [packet EXCEPT !.MsgFlags = NoAuthNoPriv],
                               Pdus, RequestID).bytes} :
          \E msg \in {PeerMessage(packet, <<0, 0, 1, 2>>,
                                  OctetField("short", Zeros(12)),
                                  OctetField("short", PrivSalt(8)), data)} :
           wire' = [op |-> "msg", bytes |-> msg, sent |-> msg,
                    cursor |-> StartCursor(msg),
                    flags |-> f, model |-> UserSecurityModel,
                    authLen |-> 12, authForm |-> "short", signed |-> FALSE,
                    privLen |-> 8, encrypted |-> enc, tampered |-> FALSE]
    /\ UNCHANGED <<x, verr, pc, loc, packetOut, issued, response, parsed, built,
                   sent, neg, sync>>

\* Any connection of the User Security Model, its passphrases empty or not,
\* and a packet of it with any security level
InitKeys ==
    /\ \E f \in {NoAuthNoPriv, AuthNoPriv, AuthPriv},
          ap \in {MD5, SHA}, pp \in {DES, AES},
          apass \in {<<>>, Passphrase}, ppass \in {<<>>, Passphrase} :
         x = Connection(f, UserSecurityModel, ap, pp, apass, ppass,
                        UserName, <<0, 0, 0, 1>>)
    /\ verr = "not called"
    /\ pc = [p \in Callers |-> "idle"]
    /\ loc = [p \in Callers |-> [msgID |-> Zeros(4)]]
    /\ \E pf \in {NoAuthNoPriv, AuthNoPriv, AuthPriv} :
         packetOut = [p \in Callers |->
                        IF p = 1
                        THEN [RequestPacket(x) EXCEPT
                                !.MsgFlags = pf,
                                !.SecurityParameters.PrivacyParameters =
                                    IF HasPriv(pf) THEN PrivSalt(8) ELSE <<>>]
                        ELSE blankPacket]
    /\ issued = <<>>
    /\ wire = NoCall
    /\ response = ResponseFor(x)
    /\ parsed = NoCall
    /\ built = NoCall
    /\ NoDiscovery

NextKeys ==
    \/ Validate
    \/ Rebuild(1)
    \/ BuildSalt(1)
    \/ Marshal(1)
    \/ PeerWithoutKeys
    \/ Extract

SpecKeys == InitKeys /\ [][NextKeys]_vars

----------------------------------------------------------------------------
(* Properties of key localization, checked under SpecKeys *)

\* marshalMsg has run on a packet whose security level makes it derive a
\* key from an empty passphrase
BuiltWithEmptyPassphrase ==
    /\ built.op = "done"
    /\ built.packet.SecurityModel = UserSecurityModel
    /\ \/ /\ HasAuth(built.packet.MsgFlags)
          /\ built.packet.SecurityParameters.AuthenticationPassphrase = <<>>
       \/ /\ HasPriv(built.packet.MsgFlags)
          /\ built.packet.SecurityParameters.PrivacyPassphrase = <<>>

\* extractV3Packet has run on a message that makes it derive a key from an
\* empty passphrase of the connection
ParsedWithEmptyPassphrase ==
    /\ parsed.op = "done"
    /\ \/ /\ HasAuth(wire.flags)
          /\ parsed.before.SecurityParameters.AuthenticationPassphrase = <<>>
       \/ /\ wire.encrypted
          /\ ~HasAuth(wire.flags)
          /\ parsed.before.SecurityParameters.PrivacyPassphrase = <<>>

\* C21: an operation that derives a key from an empty passphrase returns an
\* error value: marshalMsg (marshalSnmpV3ScopedPDU, authenticate) and
\* extractV3Packet (isAuthentic, decryption) do not panic, and do not return
\* without an error and without a result.
C21_EmptyPassphraseIsError ==
    /\ BuiltWithEmptyPassphrase =>
         /\ built.err # "panic"
         /\ built.err # "nil"
    /\ ParsedWithEmptyPassphrase =>
         /\ parsed.err # "panic"
         /\ parsed.err # "nil"

----------------------------------------------------------------------------
(* Reports of the authoritative engine received by a Synchronized          *)
(* connection                                                              *)

\* the tag of a Report PDU, of an OBJECT IDENTIFIER and of a Counter32
Report == 168
ObjectIdentifier == 6
Counter32 == 65

\* 1.3.6.1.6.3.15.1.1.2.0 and 1.3.6.1.6.3.15.1.1.4.0 in their encoding
usmStatsNotInTimeWindows == <<43, 6, 1, 6, 3, 15, 1, 1, 2, 0>>
usmStatsUnknownEngineIDs == <<43, 6, 1, 6, 3, 15, 1, 1, 4, 0>>

\* one variable binding of a counter to the name oid, in its list
ReportVarBinds(oid) ==
    <<Sequence, Len(oid) + 7, Sequence, Len(oid) + 5, ObjectIdentifier, Len(oid)>>
    \o oid \o <<Counter32, 1, 1>>

\* a Report PDU of the PDU codec: the request id and the variable bindings
ReportPDU(requestid, oid) ==
    <<Report>> \o marshalLength(6 + Len(ReportVarBinds(oid)))
    \o <<Integer, 4>> \o requestid \o ReportVarBinds(oid)

\* the plain Scoped PDU around a Report of the engine engineID
ScopedReport(engineID, requestid, oid) ==
    <<Sequence>>
    \o marshalLength(4 + Len(engineID) + Len(ReportPDU(requestid, oid)))
    \o <<OctetString, Len(engineID)>> \o engineID \o <<OctetString, 0>>
    \o ReportPDU(requestid, oid)

\* unmarshal of the PDU codec on a Report: the name of its first variable
\* binding, or the empty name when the PDU is no Report
ReportOID(data) ==
    IF Len(data) < 14 \/ data[1] # Report \/ data[2] >= 128
       \/ data[13] # ObjectIdentifier \/ Len(data) < 14 + data[14]
    THEN <<>>
    ELSE SubSeq(data, 15, 14 + data[14])

\* The peer sends a Report with the USM parameters e, b and tm; when signed,
\* its HMAC is computed with the user's key as the connection localizes it
PeerReport ==
    /\ wire = NoCall
    /\ \E e \in {<<>>, EngineID, NewEngineID}, b \in {Boots, NewBoots},
          tm \in {Time, NewTime},
          oid \in {usmStatsNotInTimeWindows, usmStatsUnknownEngineIDs},
          signed \in BOOLEAN :
        \E packet \in {[RequestPacket(x) EXCEPT
                          !.MsgFlags = AuthNoPriv,
                          !.SecurityParameters.AuthoritativeEngineID = e,
                          !.SecurityParameters.AuthoritativeEngineBoots = b,
                          !.SecurityParameters.AuthoritativeEngineTime = tm]} :
         \E data \in {ScopedReport(e, RequestID, oid)} :
          \E msg \in {PeerMessage(packet, <<0, 0, 1, 2>>,
                                  OctetField("short", Zeros(12)),
                                  OctetField("short", <<>>), data)} :
           wire' = [op |-> "msg",
                    bytes |-> IF signed
                              THEN PeerSigned(msg, Len(msg) - Len(data) - 2 - 14, 2, 12,
                                              x.SecurityParameters)
                              ELSE msg,
                    sent |-> msg, cursor |-> StartCursor(msg),
                    flags |-> AuthNoPriv, model |-> UserSecurityModel,
                    signed |-> signed, encrypted |-> FALSE, tampered |-> FALSE,
                    engineID |-> e, boots |-> b, time |-> tm, oid |-> oid]
    /\ UNCHANGED <<x, verr, pc, loc, packetOut, issued, response, parsed, built,
                   sent, neg, sync>>

\* what the receiver makes of the result of extractV3Packet: the error it
\* surfaces, with the boots and time it carries, and the connection after it
ReportHandled(c, result, authenticated, oid) ==
    IF authenticated /\ oid = usmStatsNotInTimeWindows
    THEN [x |-> storeSecurityParameters(c, result).x,
          err |-> IF storeSecurityParameters(c, result).err = "nil"
                  THEN "OutOfTimeWindow"
                  ELSE storeSecurityParameters(c, result).err,
          new_boots |-> result.SecurityParameters.AuthoritativeEngineBoots,
          new_time |-> result.SecurityParameters.AuthoritativeEngineTime]
    ELSE [x |-> c,
          err |-> IF oid = <<>> THEN "nil" ELSE "usmStats report",
          new_boots |-> Zeros(4), new_time |-> Zeros(4)]

\* The receiver handles the message extractV3Packet accepted
HandleReport ==
    /\ IF parsed = NoCall THEN FALSE ELSE parsed.err = "nil"
    /\ sync.stores = 0
    /\ \E h \in {ReportHandled(x, response,
                               \E i \in 1..Len(parsed.steps) :
                                    parsed.steps[i] = "hmac passed",
                               ReportOID(From(parsed.packet, parsed.cursor)))} :
         /\ x' = h.x
         /\ sync' = [stores |-> 1,
                     stored |-> [op |-> "done", result |-> response, before |-> x,
                                 err |-> h.err, new_boots |-> h.new_boots,
                                 new_time |-> h.new_time],
                     updated |-> NoCall]
    /\ UNCHANGED <<verr, pc, loc, packetOut, issued, wire, response, parsed, built,
                   sent, neg>>

\* A Synchronized connection: validated for authentication, its engine id,
\* boots and time known
InitReport ==
    /\ \E f \in {AuthNoPriv, AuthPriv}, ap \in {MD5, SHA}, pp \in {DES, AES} :
         x = [Connection(BitOr(f, Reportable), UserSecurityModel, ap, pp,
                         Passphrase, Passphrase, UserName, <<0, 0, 0, 1>>)
                EXCEPT !.ContextEngineID = EngineID]
    /\ validateParametersV3(x) = "nil"
    /\ verr = "nil"
    /\ NoBuild
    /\ wire = NoCall
    /\ response = ResponseFor(x)
    /\ parsed = NoCall
    /\ built = NoCall
    /\ NoDiscovery

NextReport ==
    \/ PeerReport
    \/ Extract
    \/ HandleReport

SpecReport == InitReport /\ [][NextReport]_vars

----------------------------------------------------------------------------
(* Properties of the out-of-time-window recovery, checked under SpecReport *)

\* an authenticated Report of usmStatsNotInTimeWindows has been handled
TimeWindowReportHandled ==
    /\ sync.stored.op = "done"
    /\ wire.signed
    /\ wire.oid = usmStatsNotInTimeWindows

\* the error returned carries the boots and time of the report, and the
\* connection holds them
RecoveredFrom(b, tm) ==
    /\ sync.stored.err = "OutOfTimeWindow"
    /\ sync.stored.new_boots = b
    /\ sync.stored.new_time = tm
    /\ x.SecurityParameters.AuthoritativeEngineBoots = b
    /\ x.SecurityParameters.AuthoritativeEngineTime = tm

\* C22: on a Synchronized connection, handling an authenticated Report whose
\* variable binding is usmStatsNotInTimeWindows returns the OutOfTimeWindow
\* error with the report's boots and time, leaves the connection with that
\* boots and time, and leaves it Synchronized: its engine id is still known.
C22_OutOfTimeWindowRecovery ==
    TimeWindowReportHandled =>
        /\ RecoveredFrom(wire.boots, wire.time)
        /\ x.SecurityParameters.AuthoritativeEngineID # <<>>

----------------------------------------------------------------------------
(* The salt counter policy of buildPacket3, checked under SpecBuild *)

\* the message the build was called for has privacy enabled
PrivateMessage(b) ==
    /\ b.given.Version = Version3
    /\ b.given.SecurityModel = UserSecurityModel
    /\ HasPriv(b.given.MsgFlags)

\* the build moved the counter of the connection's privacy protocol by one
\* and no other, and the packet it wrote a salt into carries the new value
MovedConfiguredCounter(b) ==
    /\ b.desAfter = IF b.connProto = DES THEN Inc(b.desBefore) ELSE b.desBefore
    /\ b.aesAfter = IF b.connProto = AES THEN Inc(b.aesBefore) ELSE b.aesBefore
    /\ b.wrote
    /\ b.pkt.SecurityParameters.PrivacyParameters =
         IF b.connProto = AES THEN b.aesAfter
         ELSE b.pkt.SecurityParameters.AuthoritativeEngineBoots \o b.desAfter

\* C23: each buildPacket3 call advances msgID by one; a build for a message
\* with privacy, on a connection with privacy and the same DES or AES
\* protocol, advances the counter of that protocol by one, leaves the other
\* alone and writes the new value into the packet's PrivacyParameters (for
\* DES behind the engine boots); a build for a message without privacy, the
\* discovery probe included, leaves both salt counters unchanged.
C23_SaltCounterPolicy ==
    \A i \in 1..Len(issued) :
        /\ i > 1 => issued[i].msgID = Inc(issued[i - 1].msgID)
        /\ (/\ PrivateMessage(issued[i])
            /\ HasPriv(issued[i].connFlags)
            /\ issued[i].connProto \in {DES, AES}
            /\ issued[i].given.SecurityParameters.PrivacyProtocol = issued[i].connProto)
              => MovedConfiguredCounter(issued[i])
        /\ ~PrivateMessage(issued[i]) =>
              /\ issued[i].desAfter = issued[i].desBefore
              /\ issued[i].aesAfter = issued[i].aesBefore

----------------------------------------------------------------------------
(* prepV3pPDU on packets with engine ids and user names of every length,   *)
(* boots and time of every encoded length, and a buffer that already holds *)
(* bytes                                                                   *)

\* the longest engine id and user name
MaxNameLen == 32

\* a string of n bytes
NameOf(n) == [i \in 1..n |-> 65 + (i % 26)]

\* values that marshalUvarInt encodes in 1, 2, 3, 4 and 5 bytes
EncodedLengths ==
    {<<0, 0, 0, 7>>, <<0, 0, 1, 0>>, <<0, 1, 0, 0>>, <<1, 0, 0, 0>>, <<128, 0, 0, 0>>}

\* the security level, the privacy protocol and the length of the privacy
\* parameters of the packet
PrivacyCases ==
    {[flags |-> AuthNoPriv, proto |-> DES, n |-> 0],
     [flags |-> AuthPriv, proto |-> DES, n |-> 8],
     [flags |-> AuthPriv, proto |-> AES, n |-> 8],
     [flags |-> AuthPriv, proto |-> AES, n |-> 40]}

\* what the buffer may hold when prepV3pPDU is called: nothing, the version
\* field as marshalMsg writes it, or more
Prefixes == {<<>>, <<Integer, 1, Version3>>, <<Integer, 1, Version3, 5, 0, 5, 0>>}

\* prepV3pPDU is called with the caller's packet and buffer
PrepV3pPDU ==
    /\ built = NoCall
    /\ \E r \in {prepV3pPDU(packetOut[1], loc[1].msgID, loc[1].buf, Pdus, RequestID)} :
         built' = [op |-> "done", packet |-> packetOut[1], prefix |-> loc[1].buf,
                   buf |-> r.buf, authParamStart |-> r.authParamStart,
                   err |-> r.err, encrypted |-> r.encrypted]
    /\ UNCHANGED <<x, verr, pc, loc, packetOut, issued, wire, response, parsed,
                   sent, neg, sync>>

\* A caller about to call prepV3pPDU with a packet of the User Security Model
\* whose Auth flag is set
InitPrep ==
    /\ \E c \in PrivacyCases, e \in 0..MaxNameLen, u \in {0, 1, MaxNameLen},
          b \in EncodedLengths, tm \in {<<0, 0, 0, 7>>, <<128, 0, 0, 0>>},
          prefix \in Prefixes :
         /\ x = Connection(c.flags, UserSecurityModel, SHA, c.proto,
                           Passphrase, Passphrase, NameOf(u), <<0, 0, 0, 1>>)
         /\ packetOut = [p \in Callers |->
                IF p = 1
                THEN [RequestPacket(x) EXCEPT
                        !.SecurityParameters.AuthoritativeEngineID = NameOf(e),
                        !.SecurityParameters.AuthoritativeEngineBoots = b,
                        !.SecurityParameters.AuthoritativeEngineTime = tm,
                        !.SecurityParameters.PrivacyParameters = NameOf(c.n)]
                ELSE blankPacket]
         /\ loc = [p \in Callers |->
                IF p = 1 THEN [msgID |-> <<0, 0, 1, 2>>, buf |-> prefix]
                ELSE [msgID |-> Zeros(4), buf |-> <<>>]]
    /\ verr = "not called"
    /\ pc = [p \in Callers |-> "idle"]
    /\ issued = <<>>
    /\ NoParse
    /\ built = NoCall
    /\ NoDiscovery

NextPrep == PrepV3pPDU

SpecPrep == InitPrep /\ [][NextPrep]_vars

----------------------------------------------------------------------------
(* Properties of prepV3pPDU, checked under SpecPrep *)

\* the index behind the field that starts at index p of buf, and the index
\* of the content of that field
SkipField(buf, p) == p + parseLength(From(buf, p)).length
EnterField(buf, p) == p + parseLength(From(buf, p)).cursor

\* the index in buf of the tag of msgAuthenticationParameters, found by
\* reading the buffer behind its first n bytes: the header is skipped, the
\* security parameters and their SEQUENCE are entered, and the engine id,
\* boots, time and user name are skipped
AuthFieldAt(buf, n) ==
    SkipField(buf, SkipField(buf, SkipField(buf, SkipField(buf,
        EnterField(buf, EnterField(buf, SkipField(buf, n)))))))

\* prepV3pPDU has returned a buffer for a packet with the Auth flag
PreparedWithAuth ==
    /\ built.op = "done"
    /\ built.err = "nil"
    /\ HasAuth(built.packet.MsgFlags)

\* C24: for a packet of the User Security Model with the Auth flag set, the
\* offset prepV3pPDU returns is the index in the buffer it returns of the
\* first of the 12 zero bytes of msgAuthenticationParameters: the two bytes
\* before it are the OCTET STRING tag of that field and the length 12,
\* whatever the lengths of engine id, user name, boots, time and privacy
\* parameters, and whatever the buffer held before the call.
C24_AuthParamOffset ==
    PreparedWithAuth =>
        \A o \in {built.authParamStart} :
            /\ o = AuthFieldAt(built.buf, Len(built.prefix)) + 2
            /\ o + 12 <= Len(built.buf)
            /\ SubSeq(built.buf, o + 1, o + 12) = Zeros(12)
            /\ built.buf[o] = 12
            /\ built.buf[o - 1] = OctetString
            /\ SubSeq(built.buf, 1, Len(built.prefix)) = built.prefix

\* the offset was returned for a packet whose security parameters take the
\* long form of the length, in a buffer that held bytes before the call
C24_LongFormWitness ==
    /\ PreparedWithAuth
    /\ built.prefix # <<>>
    /\ Len(built.packet.SecurityParameters.AuthoritativeEngineID) = MaxNameLen
    /\ Len(marshalUvarInt(built.packet.SecurityParameters.AuthoritativeEngineBoots)) = 5
    /\ Len(marshalSnmpV3UsmSecurityParameters(built.packet).bytes) >= 128
    /\ built.authParamStart > 0

----------------------------------------------------------------------------
(* The context engine id, checked under SpecDiscovery *)

\* C25: ContextEngineID defaults to the learned engine id and is otherwise
\* left alone: a store changes the connection's ContextEngineID only when it
\* is empty, and then to the engine id of the result stored; a ContextEngineID
\* that is not empty is never changed by any step; after a store the
\* connection's is empty only if the engine id stored is; an update changes
\* the packet's ContextEngineID only when it is empty, and then to the
\* connection's, and after an update the packet's is empty only if the
\* connection's is.
C25_ContextEngineIDDefault ==
    /\ [](/\ (sync.stored # NoCall /\ x.ContextEngineID = <<>>) =>
                sync.stored.result.SecurityParameters.AuthoritativeEngineID = <<>>
          /\ (sync.updated # NoCall /\ packetOut[1].ContextEngineID = <<>>) =>
                x.ContextEngineID = <<>>)
    /\ [][/\ x.ContextEngineID # <<>> => x'.ContextEngineID = x.ContextEngineID
          /\ x'.ContextEngineID # x.ContextEngineID =>
                /\ sync'.stored # NoCall
                /\ x'.ContextEngineID =
                     sync'.stored.result.SecurityParameters.AuthoritativeEngineID
          /\ packetOut'[1].ContextEngineID # packetOut[1].ContextEngineID =>
                /\ packetOut[1].ContextEngineID = <<>>
                /\ packetOut'[1].ContextEngineID = x'.ContextEngineID]_vars

\* the connection learned its ContextEngineID from a first store, a later
\* store of another engine id left it alone, and the packet, whose
\* ContextEngineID was empty, holds it after the update
C25_KeptWitness ==
    /\ sync.stored # NoCall /\ sync.updated # NoCall
    /\ sync.stores >= 1
    /\ x.ContextEngineID \in {EngineID, NewEngineID}
    /\ x.ContextEngineID # x.SecurityParameters.AuthoritativeEngineID
    /\ x.ContextEngineID # sync.stored.result.SecurityParameters.AuthoritativeEngineID
    /\ packetOut[1].ContextEngineID = x.ContextEngineID

----------------------------------------------------------------------------
(* Which flags decide the HMAC check, checked under SpecInbound *)

\* extractV3Packet computed an HMAC over the message
HmacRan ==
    \E i \in 1..Len(parsed.steps) : parsed.steps[i] \in {"hmac passed", "hmac failed"}

----------------------------------------------------------------------------
(* The engine id behind the keys of extractV3Packet: messages whose        *)
(* msgAuthoritativeEngineID differs from the engine id the caller knows    *)

\* the engine id a key of the peer is localized with: the one the
\* connection knows, or the one the message carries
KeyEngineID(by, known, carried) == IF by = "known" THEN known ELSE carried

\* The peer sends a message of the connection's security level that carries
\* the engine id e, its HMAC computed with the key localized for the engine
\* id authBy names and its msgData encrypted with the key localized for the
\* engine id privBy names
PeerSendEngineID ==
    /\ wire = NoCall
    /\ \E e \in {<<>>, EngineID, NewEngineID}, authBy \in {"known", "carried"},
          privBy \in {"known", "carried"}, msgid \in {<<0, 0, 1, 2>>, <<0, 0, 0, 9>>} :
        \E packet \in {[RequestPacket(x) EXCEPT
                          !.MsgFlags = BitAnd(x.MsgFlags, AuthPriv),
                          !.SecurityParameters.AuthoritativeEngineID = e,
                          !.SecurityParameters.PrivacyParameters =
                               IF HasPriv(x.MsgFlags) THEN PrivSalt(8) ELSE <<>>]} :
         \E data \in {marshalSnmpV3ScopedPDU(
                         [packet EXCEPT !.SecurityParameters.AuthoritativeEngineID =
                             KeyEngineID(privBy, x.SecurityParameters.AuthoritativeEngineID, e)],
                         Pdus, RequestID)} :
          \E msg \in {PeerMessage(packet, msgid,
                                  OctetField("short", Zeros(12)),
                                  OctetField("short",
                                             packet.SecurityParameters.PrivacyParameters),
                                  data.bytes)} :
           /\ data.err = "nil"
           /\ wire' = [op |-> "msg",
                       bytes |-> PeerSigned(msg,
                                    Len(msg) - Len(data.bytes)
                                      - (2 + Len(packet.SecurityParameters.PrivacyParameters))
                                      - 14,
                                    2, 12,
                                    [packet.SecurityParameters EXCEPT
                                       !.AuthoritativeEngineID =
                                          KeyEngineID(authBy,
                                              x.SecurityParameters.AuthoritativeEngineID, e)]),
                       sent |-> msg, cursor |-> StartCursor(msg),
                       flags |-> packet.MsgFlags, model |-> UserSecurityModel,
                       encrypted |-> data.encrypted, tampered |-> FALSE,
                       engineID |-> e,
                       authKeyEngineID |->
                           KeyEngineID(authBy, x.SecurityParameters.AuthoritativeEngineID, e),
                       privKeyEngineID |->
                           KeyEngineID(privBy, x.SecurityParameters.AuthoritativeEngineID, e)]
    /\ UNCHANGED <<x, verr, pc, loc, packetOut, issued, response, parsed, built,
                   sent, neg, sync>>

\* A validated connection with authentication that knows its engine
InitEngineID ==
    /\ \E f \in {AuthNoPriv, AuthPriv}, ap \in {MD5, SHA}, pp \in {DES, AES} :
         x = Connection(BitOr(f, Reportable), UserSecurityModel, ap, pp,
                        Passphrase, Passphrase, UserName, <<0, 0, 0, 1>>)
    /\ validateParametersV3(x) = "nil"
    /\ verr = "nil"
    /\ NoBuild
    /\ wire = NoCall
    /\ response = ResponseFor(x)
    /\ parsed = NoCall
    /\ built = NoCall
    /\ NoDiscovery

NextEngineID ==
    \/ PeerSendEngineID
    \/ Extract

SpecEngineID == InitEngineID /\ [][NextEngineID]_vars

----------------------------------------------------------------------------
(* Properties of the keys of extractV3Packet, checked under SpecEngineID *)

\* extractV3Packet returned the PDU the peer sent
PduRecovered ==
    /\ parsed.err = "nil"
    /\ ~parsed.isNil
    /\ Len(parsed.packet) >= parsed.cursor + Len(marshalPDU(Pdus, RequestID))
    /\ SubSeq(parsed.packet, parsed.cursor + 1,
              parsed.cursor + Len(marshalPDU(Pdus, RequestID)))
         = marshalPDU(Pdus, RequestID)

\* C27: the key that verifies an inbound message is localized with the engine
\* id the caller knew before parsing, not with the one the message carries:
\* a message is authentic exactly when its HMAC was computed with the key of
\* the known engine id, whatever its msgAuthoritativeEngineID field holds,
\* so messages that differ only in that field are verified with the same
\* key; the key that decrypts is localized with the engine id parsed from
\* the message, so an authentic encrypted message yields its PDU exactly when
\* it was encrypted with the key of the engine id it carries.
C27_VerificationKeyFromKnownEngineID ==
    parsed.op = "done" =>
        /\ parsed.steps # <<>>
        /\ parsed.steps[1] = "hmac passed"
             <=> wire.authKeyEngineID = x.SecurityParameters.AuthoritativeEngineID
        /\ (parsed.steps[1] = "hmac passed" /\ wire.encrypted) =>
             (PduRecovered <=> wire.privKeyEngineID = wire.engineID)
        /\ (parsed.steps[1] = "hmac passed" /\ ~wire.encrypted) => PduRecovered

\* a message that carries another engine id than the connection knows was
\* found authentic with the key of the known engine id, and decrypted with
\* the key of the engine id it carries
C27_OtherEngineIDWitness ==
    /\ parsed.op = "done"
    /\ wire.engineID = NewEngineID
    /\ wire.authKeyEngineID = EngineID
    /\ wire.privKeyEngineID = NewEngineID
    /\ wire.encrypted
    /\ parsed.steps = <<"hmac passed", "decrypted">>
    /\ PduRecovered

====
